---- MODULE Spec2Model ----
(***************************************************************************)
(* Reconciliation-and-execution core of the product comparison pipeline:   *)
(* TTL cache, rate limiter, web/catalog adapters, fan-out executor,        *)
(* matcher, conflict detector and comparison builder.                      *)
(*                                                                         *)
(* Conventions                                                             *)
(*   - a Python str is a sequence of one-character strings;                *)
(*   - Python None is the empty sequence <<>>, a present value v is <<v>>   *)
(*     (a price string that is None behaves as the empty string in every   *)
(*     function modelled here, so both are <<>>);                           *)
(*   - money is an integer number of cents;                                *)
(*   - a similarity score is an exact fraction [n |-> .., d |-> ..].        *)
(***************************************************************************)
EXTENDS Integers, Sequences, FiniteSets, TLC

VARIABLES
    \* ---- reconciler_node (src/agents/nodes/reconciler.py)
    state,              \* the graph state handed to reconciler_node: a dict
                        \* whose keys may be missing and whose values may be None
    rag_results,        \* local rag_results: state.get('rag_results', []) or []
    web_results,        \* local web_results: state.get('web_results', []) or []
    rec_pc,            \* position of reconciler_node's main thread
    task,               \* one _find_best_match_for_product future per catalog product
    used_web_indices,   \* the shared "claimed" set
    matched_pairs,
    conflicts,
    comparison_table,
    \* ---- MCP server (src/mcp_server): clock, rate limiter, caches, callers
    now,                \* time.time(), in seconds
    ticks,              \* how often the clock has advanced
    calls,              \* RateLimiter.calls (deque of timestamps)
    max_calls,          \* RateLimiter.max_calls
    caches,             \* SimpleCache.cache of each cache instance (a dict)
    th,                 \* the callers (threads): position and locals of each
    admissions,         \* history: every timestamp record_call appended
    pruned_young,       \* history: is_allowed popped a timestamp younger than 60 s
    set_log,            \* history: per cache, when <<key, value>> was last set
    latest,             \* history: per cache, the last value set for a key and
                        \* when, forgotten on clear
    ops,                \* history: how many cache or adapter calls were begun
    api_key,            \* WebSearchTool.api_key is set (SERPAPI_KEY)
    backend_log,        \* history: every request sent to a backend, [time, prog, key, out]
    call_log,           \* history: every adapter call that returned, with its response
    \* ---- executor_node (src/agents/nodes/executor.py)
    ex,                 \* the invocation: inputs, position, locals, result
    \* ---- RagSearchTool._format_results (src/mcp_server/tools/rag_search.py)
    fmt,                \* one application: candidates, top_k, thresholds, result
    graph               \* one run of the agent graph: next node, nodes run, state

recVars == <<state, rag_results, web_results, rec_pc, task, used_web_indices,
             matched_pairs, conflicts, comparison_table>>

clockVars == <<now, ticks>>
limVars == <<calls, max_calls, admissions, pruned_young>>
cacheVars == <<caches, set_log, latest>>
webVars == <<api_key, backend_log, call_log>>
srvVars == <<clockVars, limVars, cacheVars, th, ops, webVars>>

vars == <<recVars, srvVars, ex, fmt, graph>>

\* executor_node is not running
ExIdle == [pc |-> "idle"]

\* _format_results is not running
FmtIdle == [pc |-> "idle"]

\* no run of the agent graph is under way
GraphIdle == [node |-> "idle"]

\* The MCP server at rest, as constructed at import time
\* (rate_limiter.py 26, cache.py 35).
max_calls_per_minute == 10
EmptyDict == <<>>
CacheNames == {"web", "rag"}

SrvIdle ==
    /\ now = 0
    /\ ticks = 0
    /\ calls = <<>>
    /\ max_calls = max_calls_per_minute
    /\ caches = [c \in CacheNames |-> EmptyDict]
    /\ th = <<>>
    /\ admissions = <<>>
    /\ pruned_young = FALSE
    /\ set_log = [c \in CacheNames |-> EmptyDict]
    /\ latest = [c \in CacheNames |-> EmptyDict]
    /\ ops = 0
    /\ api_key = TRUE
    /\ backend_log = <<>>
    /\ call_log = <<>>


None == <<>>
Some(v) == <<v>>

\* dict.get(key): None when the key is missing
Get(d, key) == IF key \in DOMAIN d THEN Some(d[key]) ELSE None

Min(a, b) == IF a <= b THEN a ELSE b
Abs(x) == IF x < 0 THEN -x ELSE x

(***************************************************************************)
(* str helpers: lower(), strip(), split(), ' '.join(), replace(p, ''),     *)
(* "p in s".                                                               *)
(***************************************************************************)
UpperAlpha == <<"A","B","C","D","E","F","G","H","I","J","K","L","M",
                "N","O","P","Q","R","S","T","U","V","W","X","Y","Z">>
LowerAlpha == <<"a","b","c","d","e","f","g","h","i","j","k","l","m",
                "n","o","p","q","r","s","t","u","v","w","x","y","z">>
Whitespace == {" "}

LowerChar(c) ==
    IF \E i \in 1..Len(UpperAlpha) : UpperAlpha[i] = c
    THEN LowerAlpha[CHOOSE i \in 1..Len(UpperAlpha) : UpperAlpha[i] = c]
    ELSE c

Lower(s) == [i \in 1..Len(s) |-> LowerChar(s[i])]

RECURSIVE LStrip(_)
LStrip(s) == IF s # <<>> /\ Head(s) \in Whitespace THEN LStrip(Tail(s)) ELSE s

RECURSIVE RStrip(_)
RStrip(s) ==
    IF s # <<>> /\ s[Len(s)] \in Whitespace
    THEN RStrip(SubSeq(s, 1, Len(s) - 1))
    ELSE s

Strip(s) == RStrip(LStrip(s))

RECURSIVE SplitAcc(_, _, _)
SplitAcc(s, cur, ws) ==
    IF s = <<>> THEN (IF cur = <<>> THEN ws ELSE Append(ws, cur))
    ELSE IF Head(s) \in Whitespace
         THEN SplitAcc(Tail(s), <<>>, IF cur = <<>> THEN ws ELSE Append(ws, cur))
         ELSE SplitAcc(Tail(s), Append(cur, Head(s)), ws)

Split(s) == SplitAcc(s, <<>>, <<>>)

RECURSIVE Join(_)
Join(ws) ==
    IF ws = <<>> THEN <<>>
    ELSE IF Len(ws) = 1 THEN ws[1]
    ELSE ws[1] \o <<" ">> \o Join(Tail(ws))

IsPrefix(p, s) == Len(p) <= Len(s) /\ SubSeq(s, 1, Len(p)) = p

RECURSIVE RemoveAll(_, _)
RemoveAll(s, p) ==
    IF s = <<>> THEN <<>>
    ELSE IF IsPrefix(p, s) THEN RemoveAll(SubSeq(s, Len(p) + 1, Len(s)), p)
    ELSE <<Head(s)>> \o RemoveAll(Tail(s), p)

Contains(s, p) == \E i \in 1..(Len(s) - Len(p) + 1) : SubSeq(s, i, i + Len(p) - 1) = p

(***************************************************************************)
(* difflib.SequenceMatcher(None, a, b).ratio() for strings shorter than    *)
(* the autojunk limit: 2*M/T, M the characters in the matching blocks      *)
(* found by recursively taking the longest block, earliest in a, then      *)
(* earliest in b.                                                          *)
(***************************************************************************)
BlockAt(a, b, i, j, k) ==
    /\ i + k - 1 <= Len(a)
    /\ j + k - 1 <= Len(b)
    /\ SubSeq(a, i, i + k - 1) = SubSeq(b, j, j + k - 1)

SetMax(S) == CHOOSE x \in S : \A y \in S : y <= x
SetMin(S) == CHOOSE x \in S : \A y \in S : x <= y

LongestK(a, b) ==
    SetMax({0} \cup {k \in 1..Min(Len(a), Len(b)) :
                       \E i \in 1..Len(a), j \in 1..Len(b) : BlockAt(a, b, i, j, k)})
FirstI(a, b, k) ==
    SetMin({i \in 1..Len(a) : \E j \in 1..Len(b) : BlockAt(a, b, i, j, k)})
FirstJ(a, b, i, k) == SetMin({j \in 1..Len(b) : BlockAt(a, b, i, j, k)})
MatchAt(a, b, k, i) == <<i, FirstJ(a, b, i, k), k>>
MatchOfLen(a, b, k) == IF k = 0 THEN <<1, 1, 0>> ELSE MatchAt(a, b, k, FirstI(a, b, k))

\* find_longest_match: <<i, j, k>> with a[i..i+k-1] = b[j..j+k-1]
FindLongestMatch(a, b) == MatchOfLen(a, b, LongestK(a, b))

RECURSIVE MatchingChars(_, _)
RECURSIVE MatchingAround(_, _, _)
MatchingAround(a, b, m) ==
    IF m[3] = 0 THEN 0
    ELSE m[3] + MatchingChars(SubSeq(a, 1, m[1] - 1), SubSeq(b, 1, m[2] - 1))
              + MatchingChars(SubSeq(a, m[1] + m[3], Len(a)),
                              SubSeq(b, m[2] + m[3], Len(b)))

MatchingChars(a, b) ==
    IF a = <<>> \/ b = <<>> THEN 0
    ELSE MatchingAround(a, b, FindLongestMatch(a, b))

\* exact fractions
Frac(n, d) == [n |-> n, d |-> d]
FracGT(x, y) == x.n * y.d > y.n * x.d
FracZero == Frac(0, 1)

_similarity(a, b) ==
    IF a = <<>> \/ b = <<>> THEN FracZero
    ELSE Frac(2 * MatchingChars(Lower(a), Lower(b)), Len(a) + Len(b))

(***************************************************************************)
(* _extract_price: strip everything but digits and '.', then float().      *)
(* float() raises ValueError (-> None) on "", "." and on more than one     *)
(* '.'.  The value is kept in cents: inputs carry at most two fraction     *)
(* digits.                                                                 *)
(***************************************************************************)
Digits == <<"0","1","2","3","4","5","6","7","8","9">>
IsDigit(c) == \E i \in 1..Len(Digits) : Digits[i] = c
DigitVal(c) == (CHOOSE i \in 1..Len(Digits) : Digits[i] = c) - 1

RECURSIVE DigitsVal(_)
DigitsVal(s) ==
    IF s = <<>> THEN 0
    ELSE DigitsVal(SubSeq(s, 1, Len(s) - 1)) * 10 + DigitVal(s[Len(s)])

KeepPriceChar(c) == IsDigit(c) \/ c = "."

_extract_price(price_str) ==
    IF price_str = <<>> THEN None
    ELSE LET clean == SelectSeq(price_str, KeepPriceChar)
             dots == {i \in 1..Len(clean) : clean[i] = "."}
         IN IF Cardinality(dots) > 1 \/ Len(clean) = Cardinality(dots)
            THEN None
            ELSE LET p == IF dots = {} THEN Len(clean) + 1
                          ELSE CHOOSE i \in dots : TRUE
                     ip == SubSeq(clean, 1, p - 1)
                     fp == SubSeq(clean, p + 1, Len(clean))
                     f2 == SubSeq(fp \o <<"0", "0">>, 1, 2)
                 IN Some(DigitsVal(ip) * 100 + DigitsVal(f2))

\* Python truthiness of an optional number: None and 0 are falsy
Truthy(x) == x # None /\ x[1] # 0

(***************************************************************************)
(* _normalize_brand, _normalize_title                                      *)
(***************************************************************************)
BrandSuffixes == << <<"i","n","c">>, <<"l","l","c">>, <<"c","o","r","p">>,
                    <<"c","o","m","p","a","n","y">>, <<"c","o">> >>

RECURSIVE StripBrandSuffixes(_, _)
StripBrandSuffixes(s, i) ==
    IF i > Len(BrandSuffixes) THEN s
    ELSE StripBrandSuffixes(
            RemoveAll(RemoveAll(s, <<" ">> \o BrandSuffixes[i]),
                      <<".">> \o BrandSuffixes[i]),
            i + 1)

_normalize_brand(brand) ==
    IF brand = <<>> THEN <<>>
    ELSE StripBrandSuffixes(Strip(Lower(brand)), 1)

Stopwords == { <<"t","h","e">>, <<"a">>, <<"a","n">>, <<"f","o","r">>,
               <<"w","i","t","h">>, <<"a","n","d">>, <<"o","r">> }

NotStopword(w) == w \notin Stopwords

_normalize_title(title) ==
    IF title = <<>> THEN <<>>
    ELSE Join(SelectSeq(Split(Strip(Lower(title))), NotStopword))

(***************************************************************************)
(* The composite score of _find_best_match_for_product's loop body.        *)
(***************************************************************************)
BrandWeight == 4      \* 0.4, in tenths
TitleWeight == 6      \* 0.6, in tenths
SnippetBonus == 2     \* 0.2, in tenths
AcceptThreshold == Frac(5, 10)
HighThreshold == Frac(7, 10)

First3(words) == SubSeq(words, 1, Min(3, Len(words)))

\* brand_sim (line 80): the brand against the first three words of the web title
BrandSim(rag_brand, web_title) ==
    IF rag_brand # <<>>
    THEN _similarity(rag_brand, Join(First3(Split(web_title))))
    ELSE FracZero

\* lines 86-91: 0.4 * brand_sim + 0.6 * title_sim, plus 0.2 capped at 1.0 when
\* the brand appears in the snippet
WeightedScore(brand_sim, title_sim, bonus) ==
    LET d == 10 * brand_sim.d * title_sim.d
        n == BrandWeight * brand_sim.n * title_sim.d
             + TitleWeight * title_sim.n * brand_sim.d
    IN IF bonus
       THEN Frac(Min(n + SnippetBonus * brand_sim.d * title_sim.d, d), d)
       ELSE Frac(n, d)

ScoreNormalized(rag_brand, rag_title, web_title, web_snippet) ==
    WeightedScore(BrandSim(rag_brand, web_title),
                  _similarity(rag_title, web_title),
                  rag_brand # <<>> /\ Contains(web_snippet, rag_brand))

combined_score(rag_product, web_product) ==
    ScoreNormalized(_normalize_brand(rag_product.brand),
                    _normalize_title(rag_product.title),
                    _normalize_title(web_product.title),
                    Lower(web_product.snippet))

\* round(x, 3), in thousandths (ties to even)
Round3(x) ==
    LET q == (x.n * 1000) \div x.d
        r == (x.n * 1000) % x.d
    IN IF 2 * r > x.d THEN q + 1
       ELSE IF 2 * r = x.d THEN q + (q % 2)
       ELSE q

(***************************************************************************)
(* Inputs: the catalog products and web listings the lists are drawn from. *)
(***************************************************************************)
CatA == [doc_id |-> "d1", title |-> <<"T","o","y"," ","C","a","r">>,
         brand |-> <<"A","c","m","e">>, price |-> Some(1000),
         image_url |-> "i1", product_url |-> "p1", eco_friendly |-> TRUE]
CatB == [doc_id |-> "d2", title |-> <<"T","o","y"," ","C","a","r">>,
         brand |-> <<"A","c","m","e">>, price |-> Some(1500)]
CatC == [doc_id |-> "d3", title |-> <<"T","h","e"," ","D","o","l","l">>,
         brand |-> <<>>, price |-> Some(2000)]
CatalogUniverse == {CatA, CatB, CatC}

WebA == [title |-> <<"t","o","y"," ","c","a","r">>, url |-> "u1",
         snippet |-> <<"A","c","m","e"," ","s","t","o","r","e">>,
         price |-> <<"$","1","0",".","0","0">>,
         source |-> "shop", thumbnail |-> "t1", rating |-> 45, reviews |-> 12]
WebB == [title |-> <<"T","o","y"," ","C","a","r","s">>, url |-> "u2",
         snippet |-> <<>>, price |-> <<"$","2","5">>]
WebC == [title |-> <<"a"," ","d","o","l","l">>, url |-> "u1",
         snippet |-> <<>>, price |-> <<>>]
WebUniverse == {WebA, WebB, WebC}

\* a listing unrelated to every catalog product, met in the executor's probes
WebD == [title |-> <<"r","o","b","o","t">>, url |-> "u3",
         snippet |-> <<>>, price |-> <<"$","3","0">>]
ListingUniverse == WebUniverse \cup {WebD}

\* products and listings whose composite scores lie within 0.0005 above the
\* thresholds: 618/1235 (CatE, WebE) and 306/437 (CatF, WebF)
CatE == [doc_id |-> "d5", title |-> <<"a","b","c","d","e","w","x","y","z">>,
         brand |-> <<"a","b","c">>, price |-> Some(1000)]
CatF == [doc_id |-> "d6", title |-> <<"a","b","c","d","e","f","g","h","i","j","k">>,
         brand |-> <<"a","b","c","p","q","r","s">>, price |-> Some(1000)]
WebE == [title |-> <<"a","b","c","d","e","f","g","h","i","j">>, url |-> "u5",
         snippet |-> <<>>, price |-> <<"$","1","0",".","0","0">>]
WebF == [title |-> <<"a","b","c","d","e","f","g","h","i","j","k","l">>, url |-> "u6",
         snippet |-> <<>>, price |-> <<"$","1","0",".","0","0">>]
EdgeCatalog == {CatE, CatF}
EdgeListings == {WebE, WebF}

ScoreTable ==
    [p \in CatalogUniverse \cup EdgeCatalog, w \in ListingUniverse \cup EdgeListings
        |-> combined_score(p, w)]

(***************************************************************************)
(* Bounds of the model                                                     *)
(***************************************************************************)
MaxCat == 2         \* longest catalog list
MaxWeb == 2         \* longest web list

SeqsUpTo(S, n) == UNION {[1..k -> S] : k \in 0..n}
Indices(s) == [i \in 1..Len(s) |-> i]

RECURSIVE Flatten(_)
Flatten(ss) == IF ss = <<>> THEN <<>> ELSE Head(ss) \o Flatten(Tail(ss))

(***************************************************************************)
(* _detect_conflicts                                                       *)
(***************************************************************************)
PriceDiffThreshold == 500      \* 5.0 dollars, in cents
PricePctThreshold == 20

\* round(n / d) to the nearest integer, ties to even (n >= 0, d > 0)
RoundDiv(n, d) ==
    LET q == n \div d
        r == n % d
    IN IF 2 * r > d THEN q + 1
       ELSE IF 2 * r = d THEN q + (q % 2)
       ELSE q

\* a detector that flags a difference of exactly 20%
PctFlagInclusive(price_diff, rag_price) ==
    rag_price > 0 /\ price_diff * 100 >= PricePctThreshold * rag_price

\* price_diff_pct > 20, where price_diff_pct is (price_diff / rag_price) * 100
\* if rag_price > 0 else 0
PctFlag(price_diff, rag_price) ==
    rag_price > 0 /\ price_diff * 100 > PricePctThreshold * rag_price

\* the 'conflicts' list built for one pair (lines 148-174)
PairDiscrepancies(pair) ==
    LET rag_price == pair.rag_product.price
        web_price == _extract_price(pair.web_product.price)
    IN IF Truthy(rag_price) /\ Truthy(web_price)
       THEN LET price_diff == Abs(rag_price[1] - web_price[1])
            IN IF PctFlag(price_diff, rag_price[1]) \/ price_diff > PriceDiffThreshold
               THEN << [type |-> "price_discrepancy",
                        rag_price |-> rag_price[1],
                        web_price |-> web_price[1],
                        difference |-> price_diff,
                        difference_pct |->       \* in tenths of a percent
                            IF rag_price[1] > 0
                            THEN RoundDiv(price_diff * 1000, rag_price[1])
                            ELSE 0] >>
               ELSE <<>>
       ELSE <<>>

ConflictOf(pair) ==
    [rag_product_id |-> pair.rag_product.doc_id,
     rag_title |-> pair.rag_product.title,
     web_url |-> pair.web_product.url,
     web_title |-> pair.web_product.title,
     conflicts |-> PairDiscrepancies(pair)]

HasConflicts(c) == c.conflicts # <<>>

_detect_conflicts(pairs) ==
    SelectSeq([k \in 1..Len(pairs) |-> ConflictOf(pairs[k])], HasConflicts)

(***************************************************************************)
(* _create_comparison_table.  rag_idx and web_idx are not fields of the    *)
(* code's rows: they record which input element a row was built from.      *)
(***************************************************************************)
\* faulty variant: the row is flagged only when both prices are present and
\* differ by more than the dollar threshold
MatchedRowDollarsOnly(pair) ==
    [title |-> pair.rag_product.title,
     brand |-> pair.rag_product.brand,
     catalog_price |-> pair.rag_product.price,
     web_price |-> _extract_price(pair.web_product.price),
     catalog_id |-> Some(pair.rag_product.doc_id),
     web_url |-> Some(pair.web_product.url),
     web_source |-> Get(pair.web_product, "source"),
     image_url |-> Get(pair.rag_product, "image_url"),
     product_url |-> Get(pair.rag_product, "product_url"),
     eco_friendly |-> Get(pair.rag_product, "eco_friendly"),
     rating |-> Get(pair.web_product, "rating"),
     reviews |-> Get(pair.web_product, "reviews"),
     match_confidence |-> Some(pair.similarity_score),
     has_conflict |-> /\ Truthy(pair.rag_product.price)
                      /\ Truthy(_extract_price(pair.web_product.price))
                      /\ Abs(pair.rag_product.price[1]
                              - _extract_price(pair.web_product.price)[1])
                           > PriceDiffThreshold,
     sources |-> <<"catalog", "web">>,
     type |-> "matched",
     rag_idx |-> pair.rag_idx,
     web_idx |-> pair.web_idx]

MatchedRow(pair) ==
    [title |-> pair.rag_product.title,
     brand |-> pair.rag_product.brand,
     catalog_price |-> pair.rag_product.price,
     web_price |-> _extract_price(pair.web_product.price),
     catalog_id |-> Some(pair.rag_product.doc_id),
     web_url |-> Some(pair.web_product.url),
     web_source |-> Get(pair.web_product, "source"),
     image_url |-> Get(pair.rag_product, "image_url"),
     product_url |-> Get(pair.rag_product, "product_url"),
     eco_friendly |-> Get(pair.rag_product, "eco_friendly"),
     rating |-> Get(pair.web_product, "rating"),
     reviews |-> Get(pair.web_product, "reviews"),
     match_confidence |-> Some(pair.similarity_score),
     has_conflict |-> Len(_detect_conflicts(<<pair>>)) > 0,
     sources |-> <<"catalog", "web">>,
     type |-> "matched",
     rag_idx |-> pair.rag_idx,
     web_idx |-> pair.web_idx]

CatalogOnlyRow(rag_product, i) ==
    [title |-> rag_product.title,
     brand |-> rag_product.brand,
     catalog_price |-> rag_product.price,
     web_price |-> None,
     catalog_id |-> Some(rag_product.doc_id),
     web_url |-> None,
     web_source |-> None,
     image_url |-> Get(rag_product, "image_url"),
     product_url |-> Get(rag_product, "product_url"),
     eco_friendly |-> Get(rag_product, "eco_friendly"),
     rating |-> None,
     reviews |-> None,
     match_confidence |-> None,
     has_conflict |-> FALSE,
     sources |-> <<"catalog">>,
     type |-> "catalog_only",
     rag_idx |-> i,
     web_idx |-> 0]

WebOnlyRow(web_product, j) ==
    [title |-> web_product.title,
     brand |-> None,
     catalog_price |-> None,
     web_price |-> _extract_price(web_product.price),
     catalog_id |-> None,
     web_url |-> Some(web_product.url),
     web_source |-> Get(web_product, "source"),
     image_url |-> Get(web_product, "thumbnail"),
     product_url |-> Some(web_product.url),
     eco_friendly |-> None,
     rating |-> Get(web_product, "rating"),
     reviews |-> Get(web_product, "reviews"),
     match_confidence |-> None,
     has_conflict |-> FALSE,
     sources |-> <<"web">>,
     type |-> "web_only",
     rag_idx |-> 0,
     web_idx |-> j]

\* faulty variant: the web_only rows come before the catalog_only rows
ComparisonTableWebFirst(rag, web, pairs) ==
    LET matched_rag_ids == {pairs[k].rag_product.doc_id : k \in 1..Len(pairs)}
        matched_web_urls == {pairs[k].web_product.url : k \in 1..Len(pairs)}
        RagUnmatched(i) == rag[i].doc_id \notin matched_rag_ids
        WebUnmatched(j) == web[j].url \notin matched_web_urls
        ri == SelectSeq(Indices(rag), RagUnmatched)
        wi == SelectSeq(Indices(web), WebUnmatched)
    IN [k \in 1..Len(pairs) |-> MatchedRow(pairs[k])]
       \o [k \in 1..Len(wi) |-> WebOnlyRow(web[wi[k]], wi[k])]
       \o [k \in 1..Len(ri) |-> CatalogOnlyRow(rag[ri[k]], ri[k])]

_create_comparison_table(rag, web, pairs) ==
    LET matched_rag_ids == {pairs[k].rag_product.doc_id : k \in 1..Len(pairs)}
        matched_web_urls == {pairs[k].web_product.url : k \in 1..Len(pairs)}
        RagUnmatched(i) == rag[i].doc_id \notin matched_rag_ids
        WebUnmatched(j) == web[j].url \notin matched_web_urls
        ri == SelectSeq(Indices(rag), RagUnmatched)
        wi == SelectSeq(Indices(web), WebUnmatched)
    IN [k \in 1..Len(pairs) |-> MatchedRow(pairs[k])]
       \o [k \in 1..Len(ri) |-> CatalogOnlyRow(rag[ri[k]], ri[k])]
       \o [k \in 1..Len(wi) |-> WebOnlyRow(web[wi[k]], wi[k])]

(***************************************************************************)
(* _match_products: one _find_best_match_for_product task per catalog      *)
(* product on a pool of max_workers threads, all reading the shared        *)
(* used_web_indices; the submitting thread adds to it as futures complete. *)
(***************************************************************************)
max_workers == 5

\* skipped is a history field: the indices found in used_indices when scanned
NewTask == [st |-> "pending", idx |-> 1, best_score |-> FracZero, best_idx |-> 0,
            skipped |-> {}]

Running(i) == task[i].st = "running"
Finished(i) == task[i].st = "done"

\* a pool thread takes the next queued task (FIFO)
WorkerStart(i) ==
    /\ rec_pc = "matching"
    /\ task[i].st = "pending"
    /\ \A j \in 1..(i - 1) : task[j].st # "pending"
    /\ Cardinality({j \in DOMAIN task : Running(j)}) < max_workers
    /\ task' = [task EXCEPT ![i].st = "running"]
    /\ UNCHANGED <<state, rag_results, web_results, rec_pc, used_web_indices,
                   matched_pairs, conflicts, comparison_table, srvVars, ex, fmt, graph>>

\* faulty variant: a listing that equals the best score so far replaces it
ScanStepLastTie(t, rag_product, web, used) ==
    LET web_idx == t.idx
        combined == ScoreTable[rag_product, web[web_idx]]
        better == /\ web_idx \notin used
                  /\ ~FracGT(t.best_score, combined)
                  /\ FracGT(combined, AcceptThreshold)
    IN [st |-> IF web_idx = Len(web) THEN "done" ELSE "running",
        idx |-> web_idx + 1,
        best_score |-> IF better THEN combined ELSE t.best_score,
        best_idx |-> IF better THEN web_idx ELSE t.best_idx,
        skipped |-> IF web_idx \in used THEN t.skipped \cup {web_idx} ELSE t.skipped]

\* one iteration of the loop over enumerate(web_results) (lines 67-96);
\* the function returns once the list is exhausted
ScanStep(t, rag_product, web, used) ==
    LET web_idx == t.idx
        combined == ScoreTable[rag_product, web[web_idx]]
        better == /\ web_idx \notin used
                  /\ FracGT(combined, t.best_score)
                  /\ FracGT(combined, AcceptThreshold)
    IN [st |-> IF web_idx = Len(web) THEN "done" ELSE "running",
        idx |-> web_idx + 1,
        best_score |-> IF better THEN combined ELSE t.best_score,
        best_idx |-> IF better THEN web_idx ELSE t.best_idx,
        skipped |-> IF web_idx \in used THEN t.skipped \cup {web_idx} ELSE t.skipped]

WorkerScan(i) ==
    /\ rec_pc = "matching"
    /\ Running(i)
    /\ task' = [task EXCEPT ![i] = ScanStep(task[i], rag_results[i], web_results,
                                            used_web_indices)]
    /\ UNCHANGED <<state, rag_results, web_results, rec_pc, used_web_indices,
                   matched_pairs, conflicts, comparison_table, srvVars, ex, fmt, graph>>

\* the value _find_best_match_for_product returns (lines 98-106): <<>> is None
MatchResult(i) ==
    IF task[i].best_idx # 0
    THEN << [rag_product |-> rag_results[i],
             web_product |-> web_results[task[i].best_idx],
             web_idx |-> task[i].best_idx,
             rag_idx |-> i,
             similarity_score |-> Round3(task[i].best_score),
             match_type |-> IF FracGT(task[i].best_score, HighThreshold)
                            THEN "brand_title" ELSE "partial"] >>
    ELSE <<>>

\* the body of the as_completed loop (lines 127-134) for one finished future
Collect(i) ==
    /\ rec_pc = "matching"
    /\ Finished(i)
    /\ LET result == MatchResult(i)
       IN /\ used_web_indices' =
                IF result # <<>> THEN used_web_indices \cup {result[1].web_idx}
                ELSE used_web_indices
          /\ matched_pairs' = matched_pairs \o result
    /\ task' = [task EXCEPT ![i].st = "collected"]
    /\ UNCHANGED <<state, rag_results, web_results, rec_pc, conflicts, comparison_table,
                   srvVars, ex, fmt, graph>>

(***************************************************************************)
(* reconciler_node                                                         *)
(***************************************************************************)
\* lines 273-274: state.get(key, []) or []
StateList(st, key) ==
    IF key \in DOMAIN st /\ st[key] # None THEN st[key][1] ELSE <<>>

\* lines 291-310: the table returned when there are no web results
CatalogOnlyTable(rag) ==
    [i \in 1..Len(rag) |->
        [title |-> rag[i].title,
         brand |-> rag[i].brand,
         catalog_price |-> rag[i].price,
         web_price |-> None,
         catalog_id |-> Some(rag[i].doc_id),
         web_url |-> None,
         web_source |-> None,
         image_url |-> Get(rag[i], "image_url"),
         product_url |-> Get(rag[i], "product_url"),
         eco_friendly |-> Get(rag[i], "eco_friendly"),
         rating |-> None,
         reviews |-> None,
         match_confidence |-> None,
         has_conflict |-> FALSE,
         sources |-> <<"catalog">>,
         type |-> "catalog_only",
         rag_idx |-> i,
         web_idx |-> 0]]

\* faulty variant: listings without a readable price get no row
WebOnlyTablePriced(web) ==
    LET priced == {j \in 1..Len(web) : _extract_price(web[j].price) # None}
        nth(k) == CHOOSE j \in priced : Cardinality({m \in priced : m < j}) = k - 1
    IN  [k \in 1..Cardinality(priced) |-> WebOnlyRow(web[nth(k)], nth(k))]

\* faulty variant: the short-circuit rows carry no image
WebOnlyTableNoImage(web) ==
    [j \in 1..Len(web) |->
        [title |-> web[j].title,
         brand |-> None,
         catalog_price |-> None,
         web_price |-> _extract_price(web[j].price),
         catalog_id |-> None,
         web_url |-> Some(web[j].url),
         web_source |-> Get(web[j], "source"),
         image_url |-> None,
         product_url |-> Some(web[j].url),
         eco_friendly |-> None,
         rating |-> Get(web[j], "rating"),
         reviews |-> Get(web[j], "reviews"),
         match_confidence |-> None,
         has_conflict |-> FALSE,
         sources |-> <<"web">>,
         type |-> "web_only",
         rag_idx |-> 0,
         web_idx |-> j]]

\* lines 329-348: the table returned when there are no catalog results
WebOnlyTable(web) ==
    [j \in 1..Len(web) |->
        [title |-> web[j].title,
         brand |-> None,
         catalog_price |-> None,
         web_price |-> _extract_price(web[j].price),
         catalog_id |-> None,
         web_url |-> Some(web[j].url),
         web_source |-> Get(web[j], "source"),
         image_url |-> Get(web[j], "thumbnail"),
         product_url |-> Some(web[j].url),
         eco_friendly |-> None,
         rating |-> Get(web[j], "rating"),
         reviews |-> Get(web[j], "reviews"),
         match_confidence |-> None,
         has_conflict |-> FALSE,
         sources |-> <<"web">>,
         type |-> "web_only",
         rag_idx |-> 0,
         web_idx |-> j]]

\* lines 273-358: the inputs are read, then the two short-circuit returns, or
\* the submission of the tasks
ReconcilerStart ==
    /\ rec_pc = "start"
    /\ rag_results' = StateList(state, "rag_results")
    /\ web_results' = StateList(state, "web_results")
    /\ IF web_results' = <<>>
       THEN /\ comparison_table' = CatalogOnlyTable(rag_results')
            /\ rec_pc' = "done"
            /\ UNCHANGED task
       ELSE IF rag_results' = <<>>
       THEN /\ comparison_table' = WebOnlyTable(web_results')
            /\ rec_pc' = "done"
            /\ UNCHANGED task
       ELSE /\ task' = [i \in 1..Len(rag_results') |-> NewTask]
            /\ rec_pc' = "matching"
            /\ UNCHANGED comparison_table
    /\ matched_pairs' = <<>>
    /\ conflicts' = <<>>
    /\ used_web_indices' = {}
    /\ UNCHANGED <<state, srvVars, ex, fmt, graph>>

\* lines 361-407: _match_products has returned
ReconcilerFinish ==
    /\ rec_pc = "matching"
    /\ \A i \in DOMAIN task : task[i].st = "collected"
    /\ conflicts' = _detect_conflicts(matched_pairs)
    /\ comparison_table' =
         _create_comparison_table(rag_results, web_results, matched_pairs)
    /\ rec_pc' = "done"
    /\ UNCHANGED <<state, rag_results, web_results, task, used_web_indices, matched_pairs,
                   srvVars, ex, fmt, graph>>

\* What a key of the graph state can hold: nothing (the key is missing), None,
\* or a list.  <<>> stands for the missing key, <<v>> for the value v.
StateEntries(S, n) == {<<>>, <<None>>} \cup {<<Some(l)>> : l \in SeqsUpTo(S, n)}

GraphState(r, w) ==
    [k \in {x \in {"rag_results"} : r # <<>>} \cup {x \in {"web_results"} : w # <<>>}
        |-> IF k = "rag_results" THEN r[1] ELSE w[1]]

RecInit ==
    /\ state \in {GraphState(r, w) : r \in StateEntries(CatalogUniverse, MaxCat),
                                     w \in StateEntries(WebUniverse, MaxWeb)}
    /\ rag_results = <<>>
    /\ web_results = <<>>
    /\ rec_pc = "start"
    /\ task = <<>>
    /\ used_web_indices = {}
    /\ matched_pairs = <<>>
    /\ conflicts = <<>>
    /\ comparison_table = <<>>
    /\ SrvIdle
    /\ ex = ExIdle
    /\ fmt = FmtIdle
    /\ graph = GraphIdle

RecNext ==
    \/ ReconcilerStart
    \/ \E i \in DOMAIN task : WorkerStart(i)
    \/ \E i \in DOMAIN task : WorkerScan(i)
    \/ \E i \in DOMAIN task : Collect(i)
    \/ ReconcilerFinish

SpecReconciler == RecInit /\ [][RecNext]_vars

(***************************************************************************)
(* C1.  The pairs returned by _match_products are one-to-one, for every    *)
(* interleaving of the matcher's threads: no web listing (by index) and no *)
(* catalog product (by index) is in more than one pair, hence no two       *)
(* 'matched' rows reference the same web listing or catalog product.       *)
(***************************************************************************)
MatchedRows == SelectSeq(comparison_table, LAMBDA r : r.type = "matched")

OneToOne(s) ==
    \A a, b \in 1..Len(s) :
        a # b => s[a].web_idx # s[b].web_idx /\ s[a].rag_idx # s[b].rag_idx

C1_PairsOneToOne ==
    rec_pc = "done" => OneToOne(matched_pairs) /\ OneToOne(MatchedRows)

(***************************************************************************)
(* C2.  Every catalog product and every web listing of the input appears   *)
(* in exactly one row of the comparison table, and the number of rows is   *)
(* |catalog| + |web| - |pairs|.                                            *)
(***************************************************************************)
RowsOfCatalog(i) == {k \in 1..Len(comparison_table) : comparison_table[k].rag_idx = i}
RowsOfWeb(j) == {k \in 1..Len(comparison_table) : comparison_table[k].web_idx = j}

C2_TablePartitionsInputs ==
    rec_pc = "done" =>
        /\ Len(comparison_table)
             = Len(rag_results) + Len(web_results) - Len(matched_pairs)
        /\ \A i \in 1..Len(rag_results) : Cardinality(RowsOfCatalog(i)) = 1
        /\ \A j \in 1..Len(web_results) : Cardinality(RowsOfWeb(j)) = 1

(***************************************************************************)
(* C11.  When the web list or the catalog list of the state is empty,      *)
(* missing or None, reconciler_node never starts the matcher (no task is   *)
(* ever submitted, the node never waits for workers) and returns no pairs, *)
(* no conflicts, and a table with exactly one catalog_only row per catalog *)
(* product (no web listings), one web_only row per web listing (no catalog *)
(* products) or no rows (neither), in input order.                         *)
(***************************************************************************)
GivenList(key) ==
    IF key \notin DOMAIN state THEN <<>>
    ELSE IF state[key] = None THEN <<>> ELSE state[key][1]

C11_EmptyInputShortCircuit ==
    LET rag == GivenList("rag_results")
        web == GivenList("web_results")
    IN  (rag = <<>> \/ web = <<>>) =>
          /\ rec_pc \in {"start", "done"}
          /\ task = <<>>
          /\ matched_pairs = <<>>
          /\ conflicts = <<>>
          /\ rec_pc = "done" =>
                IF web = <<>>
                THEN /\ Len(comparison_table) = Len(rag)
                     /\ \A i \in 1..Len(rag) :
                          /\ comparison_table[i].type = "catalog_only"
                          /\ comparison_table[i].rag_idx = i
                          /\ comparison_table[i].catalog_id = Some(rag[i].doc_id)
                          /\ comparison_table[i].title = rag[i].title
                ELSE /\ Len(comparison_table) = Len(web)
                     /\ \A j \in 1..Len(web) :
                          /\ comparison_table[j].type = "web_only"
                          /\ comparison_table[j].web_idx = j
                          /\ comparison_table[j].web_url = Some(web[j].url)
                          /\ comparison_table[j].title = web[j].title

\* the catalog key is missing from the state and there are two web listings,
\* one of them without a price
C11_Witness ==
    /\ rec_pc = "done"
    /\ "rag_results" \notin DOMAIN state
    /\ GivenList("web_results") = <<WebC, WebA>>
    /\ Len(comparison_table) = 2

\* the web list is None and there is a catalog product
C11_WitnessNoneWeb ==
    /\ rec_pc = "done"
    /\ "web_results" \in DOMAIN state /\ state["web_results"] = None
    /\ Len(GivenList("rag_results")) = 2
    /\ Len(comparison_table) = 2

(***************************************************************************)
(* C15.  The table lists the matched rows first, one per pair in the order *)
(* of the matched-pair list, then the catalog_only rows in catalog input   *)
(* order, then the web_only rows in web input order: no catalog_only row   *)
(* precedes a matched row and no web_only row precedes a catalog_only row. *)
(***************************************************************************)
TypeRank(type) ==
    IF type = "matched" THEN 1 ELSE IF type = "catalog_only" THEN 2 ELSE 3

C15_RowOrder ==
    rec_pc = "done" =>
        /\ \A k \in 1..Len(matched_pairs) :
             /\ k <= Len(comparison_table)
             /\ comparison_table[k].type = "matched"
             /\ comparison_table[k].rag_idx = matched_pairs[k].rag_idx
             /\ comparison_table[k].web_idx = matched_pairs[k].web_idx
        /\ \A k, l \in 1..Len(comparison_table) :
             k < l =>
               /\ TypeRank(comparison_table[k].type) <= TypeRank(comparison_table[l].type)
               /\ (comparison_table[k].type = "catalog_only"
                     /\ comparison_table[l].type = "catalog_only")
                    => comparison_table[k].rag_idx < comparison_table[l].rag_idx
               /\ (comparison_table[k].type = "web_only"
                     /\ comparison_table[l].type = "web_only")
                    => comparison_table[k].web_idx < comparison_table[l].web_idx
        /\ \A k \in 1..Len(comparison_table) :
             comparison_table[k].type = "matched" => k <= Len(matched_pairs)

\* a table built by _create_comparison_table with a row of each type
C15_Witness ==
    /\ rec_pc = "done"
    /\ matched_pairs # <<>>
    /\ \E k, l \in 1..Len(comparison_table) :
         /\ comparison_table[k].type = "catalog_only"
         /\ comparison_table[l].type = "web_only"

(***************************************************************************)
(* C16.  In the output of reconciler_node a matched row has has_conflict   *)
(* exactly when the conflict list holds a record for the row's pair (same  *)
(* catalog id and web url); catalog_only and web_only rows are never       *)
(* flagged; so there are as many flagged rows as conflict records.         *)
(***************************************************************************)
RecordFor(row) ==
    {n \in 1..Len(conflicts) :
        /\ Some(conflicts[n].rag_product_id) = row.catalog_id
        /\ Some(conflicts[n].web_url) = row.web_url}

FlaggedRows == {k \in 1..Len(comparison_table) : comparison_table[k].has_conflict}

C16_FlagsMatchConflicts ==
    rec_pc = "done" =>
        /\ \A k \in 1..Len(comparison_table) :
             IF comparison_table[k].type = "matched"
             THEN comparison_table[k].has_conflict <=> RecordFor(comparison_table[k]) # {}
             ELSE ~comparison_table[k].has_conflict
        /\ Cardinality(FlaggedRows) = Len(conflicts)

\* two pairs, one with a conflict and one without
C16_Witness ==
    /\ rec_pc = "done"
    /\ Len(matched_pairs) = 2
    /\ Len(conflicts) = 1
    /\ Cardinality(FlaggedRows) = 1

(***************************************************************************)
(* C17.  The pairing is a function of the two input lists alone: every     *)
(* interleaving of the workers and every completion order yields the same  *)
(* pairs in the same order.  One of the runs is the one in which each task *)
(* is run and collected before the next one starts, in catalog order, so   *)
(* every run must yield the pairs of that run.                             *)
(***************************************************************************)
RECURSIVE BestIndex(_, _, _, _, _, _)
BestIndex(rag_product, web, used, j, best_score, best_idx) ==
    IF j > Len(web) THEN best_idx
    ELSE IF /\ j \notin used
            /\ FracGT(ScoreTable[rag_product, web[j]], best_score)
            /\ FracGT(ScoreTable[rag_product, web[j]], AcceptThreshold)
    THEN BestIndex(rag_product, web, used, j + 1, ScoreTable[rag_product, web[j]], j)
    ELSE BestIndex(rag_product, web, used, j + 1, best_score, best_idx)

RECURSIVE PairsInOrderFrom(_, _, _, _)
PairsInOrderFrom(rag, web, i, used) ==
    IF i > Len(rag) THEN <<>>
    ELSE IF BestIndex(rag[i], web, used, 1, FracZero, 0) = 0
    THEN PairsInOrderFrom(rag, web, i + 1, used)
    ELSE << <<rag[i], web[BestIndex(rag[i], web, used, 1, FracZero, 0)]>> >>
         \o PairsInOrderFrom(rag, web, i + 1,
                             used \cup {BestIndex(rag[i], web, used, 1, FracZero, 0)})

C17_PairingDeterministic ==
    rec_pc = "done" =>
        [k \in 1..Len(matched_pairs) |->
            <<matched_pairs[k].rag_product, matched_pairs[k].web_product>>]
          = PairsInOrderFrom(rag_results, web_results, 1, {})

(***************************************************************************)
(* The conflict detector on its own: _detect_conflicts applied to lists of *)
(* matched pairs drawn over a range of catalog prices and web price        *)
(* strings.                                                                *)
(***************************************************************************)
MaxPairs == 2

CatalogPrices == {None, Some(0), Some(-500), Some(1000), Some(3000)}
WebPriceStrings ==
    { <<>>,                                   \* no price
      <<"f","r","e","e">>,                    \* unparseable
      <<"$","0",".","0","0">>,
      <<"$","1","2",".","0","0">>,            \* 20% above 10.00
      <<"$","1","2",".","0","1">>,
      <<"$","3","5">>,                        \* 5.00 above 30.00
      <<"$","3","5",".","0","1">>,
      <<"$","1",",","0","0","0",".","5">> }

PairOfPrices(cp, ws) ==
    [rag_product |-> [CatA EXCEPT !.price = cp],
     web_product |-> [WebA EXCEPT !.price = ws],
     web_idx |-> 1, rag_idx |-> 1,
     similarity_score |-> 873, match_type |-> "brand_title"]

PairUniverse == {PairOfPrices(cp, ws) : cp \in CatalogPrices, ws \in WebPriceStrings}

ConfInit ==
    /\ matched_pairs \in SeqsUpTo(PairUniverse, MaxPairs)
    /\ rec_pc = "pairs"
    /\ state = EmptyDict
    /\ rag_results = <<>>
    /\ web_results = <<>>
    /\ task = <<>>
    /\ used_web_indices = {}
    /\ conflicts = <<>>
    /\ comparison_table = <<>>
    /\ SrvIdle
    /\ ex = ExIdle
    /\ fmt = FmtIdle
    /\ graph = GraphIdle

DetectConflicts ==
    /\ rec_pc = "pairs"
    /\ conflicts' = _detect_conflicts(matched_pairs)
    /\ rec_pc' = "detected"
    /\ UNCHANGED <<state, rag_results, web_results, task, used_web_indices,
                   matched_pairs, comparison_table, srvVars, ex, fmt, graph>>

ConfNext == DetectConflicts

SpecConflicts == ConfInit /\ [][ConfNext]_vars

(***************************************************************************)
(* C3.  Every Conflict record comes from a matched pair whose catalog      *)
(* price and parsed web price are both present and whose absolute          *)
(* difference exceeds 5.0 or whose difference exceeds 20% of the catalog   *)
(* price; no other pair is flagged, and a flagged pair carries exactly one *)
(* price discrepancy record.                                               *)
(***************************************************************************)
ExceedsPct(diff, base) ==
    IF base > 0 THEN diff * 100 > 20 * base
    ELSE IF base < 0 THEN diff * 100 < 20 * base
    ELSE FALSE

Significant(pair) ==
    LET rp == pair.rag_product.price
        wp == _extract_price(pair.web_product.price)
    IN /\ rp # None
       /\ wp # None
       /\ \/ Abs(rp[1] - wp[1]) > 500
          \/ ExceedsPct(Abs(rp[1] - wp[1]), rp[1])

RecordOf(c, pair) ==
    /\ c.rag_product_id = pair.rag_product.doc_id
    /\ c.web_url = pair.web_product.url
    /\ Some(c.conflicts[1].rag_price) = pair.rag_product.price
    /\ Some(c.conflicts[1].web_price) = _extract_price(pair.web_product.price)

C3_ConflictsAreSignificant ==
    rec_pc = "detected" =>
        /\ \A c \in 1..Len(conflicts) :
              /\ Len(conflicts[c].conflicts) = 1
              /\ \E k \in 1..Len(matched_pairs) :
                    /\ RecordOf(conflicts[c], matched_pairs[k])
                    /\ Significant(matched_pairs[k])
        /\ Len(conflicts)
             <= Cardinality({k \in 1..Len(matched_pairs) : Significant(matched_pairs[k])})

C3_Witness ==
    /\ rec_pc = "detected"
    /\ Len(matched_pairs) = 2
    /\ Len(conflicts) = 1
    /\ \E k \in 1..2 :
          /\ ~Significant(matched_pairs[k])
          /\ Truthy(matched_pairs[k].rag_product.price)
          /\ Truthy(_extract_price(matched_pairs[k].web_product.price))

\* ======================================================================
\* MCP server utilities: src/mcp_server/utils/rate_limiter.py and cache.py
\* ======================================================================
\* Time is counted in whole seconds.  A Python dict is a function whose
\* DOMAIN is the set of keys present.  Every caller is a thread; th[t] holds
\* its position (pc) and its local variables.  A method of the limiter or of
\* the cache is executed one shared-memory access at a time, so that callers
\* interleave wherever the interpreter may switch threads.

Window == 60
ttl_seconds == 300

MaxTicks == 2
MaxOps == 4
MaxAdapterCalls == 3
MaxCallsBound == 2
MaxThreads == 2

DictSet(d, k, v) == [x \in (DOMAIN d) \cup {k} |-> IF x = k THEN v ELSE d[x]]
DictDel(d, k) == [x \in (DOMAIN d) \ {k} |-> d[x]]

IdleThread ==
    [prog |-> "none", pc |-> "idle", cname |-> "web", key |-> <<>>,
     arg |-> None, cutoff |-> 0, cur |-> 0, size0 |-> 0, visited |-> {},
     expired |-> <<>>, snap |-> EmptyDict, ret |-> None, err |-> "none",
     req |-> None, start |-> 0, nback |-> 0, nadm |-> 0, allowed |-> None]

Raise(t, name) == [th EXCEPT ![t] = [@ EXCEPT !.pc = "raised", !.err = name]]

RecIdle ==
    /\ state = EmptyDict
    /\ rag_results = <<>>
    /\ web_results = <<>>
    /\ rec_pc = "idle"
    /\ task = <<>>
    /\ used_web_indices = {}
    /\ matched_pairs = <<>>
    /\ conflicts = <<>>
    /\ comparison_table = <<>>

\* The clock advances by d seconds.
Tick(d) ==
    /\ ticks < MaxTicks
    /\ now' = now + d
    /\ ticks' = ticks + 1
    /\ UNCHANGED <<graph, fmt, ex, recVars, webVars, ops, limVars, cacheVars, th>>

\* Whole seconds pass only while every caller is between calls.
AtRest == {"idle", "raised"}

TickAtRest(d) ==
    /\ \A t \in DOMAIN th : th[t].pc \in AtRest
    /\ Tick(d)

\* ---- RateLimiter.is_allowed (rate_limiter.py 9-17), step by step -------

\* lines 10-11: current_time = time.time(); cutoff_time = current_time - 60
EnterIsAllowed(r) == [r EXCEPT !.pc = "rl_test", !.cutoff = now - Window]

\* line 14, left operand of the loop condition: `self.calls`
RlTest(t) ==
    /\ th[t].pc = "rl_test"
    /\ th' = [th EXCEPT ![t].pc = IF calls = <<>> THEN "rl_ret" ELSE "rl_head"]
    /\ UNCHANGED <<graph, fmt, ex, recVars, webVars, ops, clockVars, limVars, cacheVars>>

\* faulty variant: prunes a timestamp that is exactly 60 seconds old
RlHeadInclusive(t) ==
    /\ th[t].pc = "rl_head"
    /\ th' = IF calls = <<>>
             THEN Raise(t, "IndexError")
             ELSE [th EXCEPT ![t].pc = IF calls[1] <= th[t].cutoff
                                       THEN "rl_pop" ELSE "rl_ret"]
    /\ UNCHANGED <<graph, fmt, ex, recVars, webVars, ops, clockVars, limVars, cacheVars>>

\* line 14, right operand: `self.calls[0] < cutoff_time`
RlHead(t) ==
    /\ th[t].pc = "rl_head"
    /\ th' = IF calls = <<>>
             THEN Raise(t, "IndexError")
             ELSE [th EXCEPT ![t].pc = IF calls[1] < th[t].cutoff
                                       THEN "rl_pop" ELSE "rl_ret"]
    /\ UNCHANGED <<graph, fmt, ex, recVars, webVars, ops, clockVars, limVars, cacheVars>>

\* line 15: self.calls.popleft()
RlPop(t) ==
    /\ th[t].pc = "rl_pop"
    /\ IF calls = <<>>
       THEN /\ th' = Raise(t, "IndexError")
            /\ UNCHANGED <<calls, pruned_young>>
       ELSE /\ calls' = Tail(calls)
            /\ pruned_young' = (pruned_young \/ now - calls[1] < Window)
            /\ th' = [th EXCEPT ![t].pc = "rl_test"]
    /\ UNCHANGED <<graph, fmt, ex, recVars, webVars, ops, clockVars, max_calls, admissions, cacheVars>>

\* line 17: the value is_allowed returns
IsAllowedResult == Len(calls) < max_calls

\* ---- SimpleCache.get (cache.py 9-16), step by step ---------------------

EnterGet(r, c, k) == [r EXCEPT !.pc = "get_in", !.cname = c, !.key = k, !.ret = None]

\* line 10: `if key in self.cache`
GetIn(t) ==
    /\ th[t].pc = "get_in"
    /\ th' = [th EXCEPT ![t].pc = IF th[t].key \in DOMAIN caches[th[t].cname]
                                  THEN "get_read" ELSE "get_done"]
    /\ UNCHANGED <<graph, fmt, ex, recVars, webVars, ops, clockVars, limVars, cacheVars>>

\* faulty variant: still returns an entry at the instant it expires
GetReadInclusive(t) ==
    /\ th[t].pc = "get_read"
    /\ th' = IF th[t].key \notin DOMAIN caches[th[t].cname]
             THEN Raise(t, "KeyError")
             ELSE IF now <= caches[th[t].cname][th[t].key].expiry
                  THEN [th EXCEPT ![t].pc = "get_done", ![t].cur = now,
                                  ![t].ret = Some(caches[th[t].cname][th[t].key].value)]
                  ELSE [th EXCEPT ![t].pc = "get_del", ![t].cur = now]
    /\ UNCHANGED <<graph, fmt, ex, recVars, webVars, ops, clockVars, limVars, cacheVars>>

\* lines 11-13: value, expiry_time = self.cache[key]; time.time() < expiry_time
GetRead(t) ==
    /\ th[t].pc = "get_read"
    /\ th' = IF th[t].key \notin DOMAIN caches[th[t].cname]
             THEN Raise(t, "KeyError")
             ELSE IF now < caches[th[t].cname][th[t].key].expiry
                  THEN [th EXCEPT ![t].pc = "get_done", ![t].cur = now,
                                  ![t].ret = Some(caches[th[t].cname][th[t].key].value)]
                  ELSE [th EXCEPT ![t].pc = "get_del", ![t].cur = now]
    /\ UNCHANGED <<graph, fmt, ex, recVars, webVars, ops, clockVars, limVars, cacheVars>>

\* line 15: del self.cache[key]
GetDel(t) ==
    /\ th[t].pc = "get_del"
    /\ IF th[t].key \notin DOMAIN caches[th[t].cname]
       THEN /\ th' = Raise(t, "KeyError")
            /\ UNCHANGED caches
       ELSE /\ caches' = [caches EXCEPT ![th[t].cname] = DictDel(@, th[t].key)]
            /\ th' = [th EXCEPT ![t].pc = "get_done"]
    /\ UNCHANGED <<graph, fmt, ex, recVars, webVars, ops, clockVars, limVars, set_log, latest>>

\* ---- SimpleCache.set (18-20) and clear (31-32): one store each ---------

CacheAfterSet(c, k, v) ==
    [caches EXCEPT ![c] = DictSet(@, k, [value |-> v, expiry |-> now + ttl_seconds])]

SetLogAfter(c, k, v) == [set_log EXCEPT ![c] = DictSet(@, <<k, v>>, now)]

LatestAfterSet(c, k, v) == [latest EXCEPT ![c] = DictSet(@, k, [value |-> v, time |-> now])]

CacheAfterClear(c) == [caches EXCEPT ![c] = EmptyDict]

\* ---- SimpleCache.clear_expired (22-29), step by step -------------------

\* line 23: current_time = time.time(); the iterator over self.cache.items()
EnterClearExpired(r, c) ==
    [r EXCEPT !.pc = "ce_iter", !.cname = c, !.cur = now, !.visited = {},
              !.expired = <<>>, !.size0 = Cardinality(DOMAIN caches[c]),
              !.snap = caches[c]]

\* lines 24-27: one step of the comprehension; a dict that changed size since
\* the iterator was created raises RuntimeError
CeIter(t) ==
    /\ th[t].pc = "ce_iter"
    /\ LET d == caches[th[t].cname]
           rest == (DOMAIN d) \ th[t].visited
       IN  IF Cardinality(DOMAIN d) # th[t].size0
           THEN th' = Raise(t, "RuntimeError")
           ELSE IF rest = {}
           THEN th' = [th EXCEPT ![t].pc = "ce_del"]
           ELSE \E k \in rest :
                  th' = [th EXCEPT ![t].visited = @ \cup {k},
                                   ![t].expired = IF th[t].cur >= d[k].expiry
                                                  THEN Append(@, k) ELSE @]
    /\ UNCHANGED <<graph, fmt, ex, recVars, webVars, ops, clockVars, limVars, cacheVars>>

\* lines 28-29: for key in expired_keys: del self.cache[key]
CeDel(t) ==
    /\ th[t].pc = "ce_del"
    /\ IF th[t].expired = <<>>
       THEN /\ th' = [th EXCEPT ![t].pc = "ce_done"]
            /\ UNCHANGED caches
       ELSE IF Head(th[t].expired) \notin DOMAIN caches[th[t].cname]
       THEN /\ th' = Raise(t, "KeyError")
            /\ UNCHANGED caches
       ELSE /\ caches' = [caches EXCEPT ![th[t].cname] = DictDel(@, Head(th[t].expired))]
            /\ th' = [th EXCEPT ![t].expired = Tail(@)]
    /\ UNCHANGED <<graph, fmt, ex, recVars, webVars, ops, clockVars, limVars, set_log, latest>>

\* ---- RateLimiter.record_call (19-20) -----------------------------------

CallsAfterRecord == Append(calls, now)

\* ======================================================================
\* The rate limiter used by one caller at a time: is_allowed, then
\* record_call when it returned true.
\* ======================================================================

Threads == DOMAIN th

SrvInit(nthreads, limits, keys) ==
    /\ RecIdle
    /\ ex = ExIdle
    /\ fmt = FmtIdle
    /\ graph = GraphIdle
    /\ now = 0
    /\ ticks = 0
    /\ calls = <<>>
    /\ max_calls \in limits
    /\ caches = [c \in CacheNames |-> EmptyDict]
    /\ th = [t \in 1..nthreads |-> IdleThread]
    /\ admissions = <<>>
    /\ pruned_young = FALSE
    /\ set_log = [c \in CacheNames |-> EmptyDict]
    /\ latest = [c \in CacheNames |-> EmptyDict]
    /\ ops = 0
    /\ api_key \in keys
    /\ backend_log = <<>>
    /\ call_log = <<>>

LimBegin(t) ==
    /\ th[t].pc = "idle"
    /\ th' = [th EXCEPT ![t] = EnterIsAllowed([@ EXCEPT !.prog = "limiter", !.ret = None])]
    /\ UNCHANGED <<graph, fmt, ex, recVars, webVars, ops, clockVars, limVars, cacheVars>>

LimReturn(t) ==
    /\ th[t].pc = "rl_ret"
    /\ th[t].prog = "limiter"
    /\ th' = [th EXCEPT ![t].ret = Some(IsAllowedResult),
                        ![t].pc = IF IsAllowedResult THEN "lim_record" ELSE "idle"]
    /\ UNCHANGED <<graph, fmt, ex, recVars, webVars, ops, clockVars, limVars, cacheVars>>

LimRecord(t) ==
    /\ th[t].pc = "lim_record"
    /\ calls' = CallsAfterRecord
    /\ admissions' = Append(admissions, now)
    /\ th' = [th EXCEPT ![t].pc = "idle", ![t].ret = None]
    /\ UNCHANGED <<graph, fmt, ex, recVars, webVars, ops, clockVars, max_calls, pruned_young, cacheVars>>

LimiterTicks == {1, Window}

LimInit == SrvInit(1, 1..MaxCallsBound, {TRUE})

LimNext ==
    \/ \E d \in LimiterTicks : Tick(d)
    \/ \E t \in Threads : LimBegin(t)
    \/ \E t \in Threads : RlTest(t)
    \/ \E t \in Threads : RlHead(t)
    \/ \E t \in Threads : RlPop(t)
    \/ \E t \in Threads : LimReturn(t)
    \/ \E t \in Threads : LimRecord(t)

SpecLimiter == LimInit /\ [][LimNext]_vars

\* Recorded admissions whose timestamp is not older than the cutoff c.
AdmittedSince(c) == Cardinality({i \in DOMAIN admissions : admissions[i] >= c})

AdmittedInWindowFrom(s) ==
    Cardinality({i \in DOMAIN admissions :
                    admissions[i] >= s /\ admissions[i] <= s + Window})

\* C4: in sequential use no 60-second window holds more than max_calls
\* recorded admissions; a call is admitted exactly when fewer than max_calls
\* recorded timestamps are at most 60 seconds old at the check, so the call
\* after max_calls immediate admissions is rejected and a caller is admitted
\* again only once a recorded timestamp has become older than 60 seconds.
C4_SlidingWindow ==
    /\ \A i \in DOMAIN admissions : AdmittedInWindowFrom(admissions[i]) <= max_calls
    /\ \A t \in Threads :
          /\ th[t].pc = "lim_record" => AdmittedSince(th[t].cutoff) < max_calls
          /\ (th[t].pc = "idle" /\ th[t].ret = Some(FALSE)) =>
                 AdmittedSince(th[t].cutoff) >= max_calls
          /\ th[t].pc # "raised"

\* a call is rejected after an earlier timestamp had expired and the freed
\* slot had been used again
C4_Witness ==
    \E t \in Threads :
        /\ th[t].pc = "idle"
        /\ th[t].ret = Some(FALSE)
        /\ Len(admissions) > max_calls
        /\ Len(calls) = max_calls

\* ======================================================================
\* The TTL cache driven directly: get, set, clear, clear_expired
\* ======================================================================

CacheKeys == {"k1", "k2"}
CacheValues == {"v1", "v2"}
Resting == {"idle", "get_done", "ce_done"}

CacheGet(t, k) ==
    /\ th[t].pc \in Resting
    /\ ops < MaxOps
    /\ ops' = ops + 1
    /\ th' = [th EXCEPT ![t] = EnterGet([@ EXCEPT !.prog = "cache"], "web", k)]
    /\ UNCHANGED <<graph, fmt, ex, recVars, webVars, clockVars, limVars, cacheVars>>

CacheSet(t, k, v) ==
    /\ th[t].pc \in Resting
    /\ ops < MaxOps
    /\ ops' = ops + 1
    /\ caches' = CacheAfterSet("web", k, v)
    /\ set_log' = SetLogAfter("web", k, v)
    /\ latest' = LatestAfterSet("web", k, v)
    /\ th' = [th EXCEPT ![t].pc = "idle", ![t].prog = "cache", ![t].ret = None]
    /\ UNCHANGED <<graph, fmt, ex, recVars, webVars, clockVars, limVars>>

CacheClear(t) ==
    /\ th[t].pc \in Resting
    /\ ops < MaxOps
    /\ ops' = ops + 1
    /\ caches' = CacheAfterClear("web")
    /\ latest' = [latest EXCEPT !["web"] = EmptyDict]
    /\ th' = [th EXCEPT ![t].pc = "idle", ![t].prog = "cache", ![t].ret = None]
    /\ UNCHANGED <<graph, fmt, ex, recVars, webVars, clockVars, limVars, set_log>>

CacheClearExpired(t) ==
    /\ th[t].pc \in Resting
    /\ ops < MaxOps
    /\ ops' = ops + 1
    /\ th' = [th EXCEPT ![t] = EnterClearExpired([@ EXCEPT !.prog = "cache", !.ret = None], "web")]
    /\ UNCHANGED <<graph, fmt, ex, recVars, webVars, clockVars, limVars, cacheVars>>

CacheTicks == {1, ttl_seconds - 1}

CacheNext ==
    \/ \E d \in CacheTicks : Tick(d)
    \/ \E t \in Threads, k \in CacheKeys : CacheGet(t, k)
    \/ \E t \in Threads, k \in CacheKeys, v \in CacheValues : CacheSet(t, k, v)
    \/ \E t \in Threads : CacheClear(t)
    \/ \E t \in Threads : CacheClearExpired(t)
    \/ \E t \in Threads : GetIn(t)
    \/ \E t \in Threads : GetRead(t)
    \/ \E t \in Threads : GetDel(t)
    \/ \E t \in Threads : CeIter(t)
    \/ \E t \in Threads : CeDel(t)

SpecCache == SrvInit(1, {max_calls_per_minute}, {TRUE}) /\ [][CacheNext]_vars

SpecCacheConc == SrvInit(MaxThreads, {max_calls_per_minute}, {TRUE}) /\ [][CacheNext]_vars

LiveAt(c, k, time) ==
    /\ k \in DOMAIN latest[c]
    /\ time < latest[c][k].time + ttl_seconds

Unexpired(d, time) == [k \in {x \in DOMAIN d : time < d[x].expiry} |-> d[k]]

\* C7: with one caller, a get that reads the clock before t + ttl returns the
\* value last set for the key at t; a get at or after t + ttl returns absent
\* and leaves no entry for the key; no get returns an expired value; and
\* clear_expired leaves exactly the entries that are unexpired at its clock
\* reading, which are those get would still return.
C7_TtlExpiry ==
    \A t \in Threads :
        /\ th[t].pc = "get_done" =>
              /\ LiveAt(th[t].cname, th[t].key, now) =>
                     th[t].ret = Some(latest[th[t].cname][th[t].key].value)
              /\ th[t].ret # None =>
                     /\ LiveAt(th[t].cname, th[t].key, th[t].cur)
                     /\ th[t].ret = Some(latest[th[t].cname][th[t].key].value)
              /\ th[t].ret = None => th[t].key \notin DOMAIN caches[th[t].cname]
        /\ th[t].pc = "ce_done" =>
              caches[th[t].cname] = Unexpired(th[t].snap, th[t].cur)
        /\ th[t].pc # "raised"

\* a get at exactly t + ttl found the entry expired and removed it
C7_Witness ==
    \E t \in Threads :
        /\ th[t].pc = "get_done"
        /\ th[t].ret = None
        /\ th[t].key \in DOMAIN latest[th[t].cname]
        /\ th[t].cur = latest[th[t].cname][th[t].key].time + ttl_seconds

\* a clear_expired removed an expired entry and kept an unexpired one
C7_ClearExpiredSplits ==
    \E t \in Threads :
        /\ th[t].pc = "ce_done"
        /\ DOMAIN caches[th[t].cname] # {}
        /\ DOMAIN caches[th[t].cname] # DOMAIN th[t].snap

\* C8: with concurrent callers no cache operation raises, and a get returns
\* absent or a value that was set for its key and was unexpired when the get
\* read the clock.
C8_ConcurrentCacheSafe ==
    \A t \in Threads :
        /\ th[t].pc # "raised"
        /\ (th[t].pc = "get_done" /\ th[t].ret # None) =>
              /\ <<th[t].key, th[t].ret[1]>> \in DOMAIN set_log[th[t].cname]
              /\ th[t].cur < set_log[th[t].cname][<<th[t].key, th[t].ret[1]>>] + ttl_seconds

\* ======================================================================
\* The retrieval adapters: src/mcp_server/tools/web_search.py, rag_search.py
\* ======================================================================
\* A backend answers with any payload or fails; the payload of the web
\* backend is taken as already formatted listings.  query_time_ms is not
\* modelled (the clock counts whole seconds).

QToySpace == <<"T", "o", "y", " ">>
QToy == <<"t", "o", "y">>
QCar == <<"c", "a", "r">>

WebRequests ==
    { [query |-> QToySpace, max_results |-> 1],
      [query |-> QToy, max_results |-> 1],
      [query |-> QToy, max_results |-> 2],
      [query |-> QCar, max_results |-> 1] }

WebPayloads == { <<>>, <<WebA>> }
WebOutcomes == {"ok", "http_error", "error"}

RagBase ==
    [query |-> QToy, price_min |-> None, price_max |-> None, category |-> None,
     eco_friendly |-> None, top_k |-> 5]

RagRequests ==
    { RagBase,
      [RagBase EXCEPT !.query = QToySpace],
      [RagBase EXCEPT !.price_max = Some(2000)] }

RagPayloads == { <<>>, <<CatA>> }
RagOutcomes == {"ok", "error"}

\* faulty variant: keys the cache by the raw query text
WebCacheKeyRaw(req) == <<"web_search:", req.query>>

\* web_search.py 32
WebCacheKey(req) == <<"web_search:", Strip(Lower(req.query))>>

\* rag_search.py 89-105
_create_cache_key(request) ==
    <<"rag_search:", Strip(Lower(request.query)), request.price_min,
      request.price_max, request.category, request.eco_friendly, request.top_k>>

\* the rag adapter's cache instance
rag_cache == "rag"
web_cache == "web"

\* An entry is new or differs from what the cache held before.
Wrote(before, after) ==
    \E k \in DOMAIN after : k \notin DOMAIN before \/ after[k] # before[k]

\* The call of thread t returns: its response and what it did are logged.
Returned(t, outcome, results, cached, allowed, backendAfter, admAfter, cacheAfter) ==
    Append(call_log,
           [thread |-> t, prog |-> th[t].prog, req |-> th[t].req,
            start |-> th[t].start, end |-> now, outcome |-> outcome,
            results |-> results, cached |-> cached, allowed |-> allowed,
            backend |-> Len(backendAfter) - th[t].nback,
            recorded |-> Len(admAfter) - th[t].nadm,
            wrote |-> Wrote(th[t].snap, cacheAfter)])

EnterExecute(prog, c, req, k) ==
    EnterGet([IdleThread EXCEPT !.prog = prog, !.req = Some(req), !.start = now,
                                !.nback = Len(backend_log),
                                !.nadm = Len(admissions), !.snap = caches[c]],
             c, k)

\* web_search.py 28-33: a request thread enters WebSearchTool.execute
WebBegin(t, req) ==
    /\ th[t].pc \in {"idle", "raised"}
    /\ ops < MaxAdapterCalls
    /\ ops' = ops + 1
    /\ th' = [th EXCEPT ![t] = EnterExecute("web", web_cache, req, WebCacheKey(req))]
    /\ UNCHANGED <<graph, fmt, ex, recVars, webVars, clockVars, limVars, cacheVars>>

\* line 37: cached_result['cached'] = True changes the dict the cache holds
MarkCached(d, k, v) ==
    IF k \in DOMAIN d /\ d[k].value = v
    THEN [d EXCEPT ![k] = [@ EXCEPT !.value = [@ EXCEPT !.cached = TRUE]]]
    ELSE d

\* faulty variant: a call served from the cache is recorded by the limiter
WebAfterGetRecordsHit(t) ==
    /\ th[t].pc = "get_done"
    /\ th[t].prog = "web"
    /\ IF th[t].ret # None
       THEN /\ caches' = [caches EXCEPT ![web_cache] = MarkCached(@, th[t].key, th[t].ret[1])]
            /\ calls' = Append(calls, now)
            /\ call_log' = Returned(t, "hit", th[t].ret[1].results, Some(TRUE), None,
                                    backend_log, admissions, caches'[web_cache])
            /\ th' = [th EXCEPT ![t].pc = "idle"]
       ELSE /\ th' = [th EXCEPT ![t] = EnterIsAllowed(@)]
            /\ UNCHANGED <<caches, call_log, calls>>
    /\ UNCHANGED <<graph, fmt, ex, recVars, ops, api_key, backend_log, clockVars, max_calls,
                   admissions, pruned_young, set_log, latest>>

\* web_search.py 35-44: the cache answered; hit, or on to the limiter
WebAfterGet(t) ==
    /\ th[t].pc = "get_done"
    /\ th[t].prog = "web"
    /\ IF th[t].ret # None
       THEN /\ caches' = [caches EXCEPT ![web_cache] = MarkCached(@, th[t].key, th[t].ret[1])]
            /\ call_log' = Returned(t, "hit", th[t].ret[1].results, Some(TRUE), None,
                                    backend_log, admissions, caches'[web_cache])
            /\ th' = [th EXCEPT ![t].pc = "idle"]
       ELSE /\ th' = [th EXCEPT ![t] = EnterIsAllowed(@)]
            /\ UNCHANGED <<caches, call_log>>
    /\ UNCHANGED <<graph, fmt, ex, recVars, ops, api_key, backend_log, clockVars, limVars, set_log, latest>>

\* faulty variant: forgets to return on rejection
WebAfterCheckFallsThrough(t) ==
    /\ th[t].pc = "rl_ret"
    /\ th[t].prog = "web"
    /\ IF ~api_key /\ IsAllowedResult
       THEN /\ call_log' = Returned(t, "no_key", <<>>, Some(FALSE), Some(TRUE),
                                    backend_log, admissions, caches[web_cache])
            /\ th' = [th EXCEPT ![t].pc = "idle", ![t].allowed = Some(TRUE)]
       ELSE /\ th' = [th EXCEPT ![t].pc = "backend", ![t].allowed = Some(IsAllowedResult)]
            /\ UNCHANGED call_log
    /\ UNCHANGED <<graph, fmt, ex, recVars, ops, api_key, backend_log, clockVars, limVars, cacheVars>>

\* web_search.py 44-61: is_allowed returned; rejected, no API key, or go on
WebAfterCheck(t) ==
    /\ th[t].pc = "rl_ret"
    /\ th[t].prog = "web"
    /\ IF ~IsAllowedResult
       THEN /\ call_log' = Returned(t, "rejected", <<>>, Some(FALSE), Some(FALSE),
                                    backend_log, admissions, caches[web_cache])
            /\ th' = [th EXCEPT ![t].pc = "idle", ![t].allowed = Some(FALSE)]
       ELSE IF ~api_key
       THEN /\ call_log' = Returned(t, "no_key", <<>>, Some(FALSE), Some(TRUE),
                                    backend_log, admissions, caches[web_cache])
            /\ th' = [th EXCEPT ![t].pc = "idle", ![t].allowed = Some(TRUE)]
       ELSE /\ th' = [th EXCEPT ![t].pc = "backend", ![t].allowed = Some(TRUE)]
            /\ UNCHANGED call_log
    /\ UNCHANGED <<graph, fmt, ex, recVars, ops, api_key, backend_log, clockVars, limVars, cacheVars>>

\* web_search.py 73-78
WebResponseData(results) ==
    [results |-> results, total_found |-> Len(results), cached |-> FALSE]

\* faulty variant: a failed request is cached as an empty response
WebBackendCachesErrors(t, out, payload) ==
    /\ th[t].pc = "backend"
    /\ backend_log' = Append(backend_log, [time |-> now, prog |-> "web", key |-> th[t].key, out |-> out])
    /\ IF out = "ok"
       THEN /\ th' = [th EXCEPT ![t].pc = "web_record", ![t].arg = Some(payload)]
            /\ UNCHANGED <<call_log, cacheVars>>
       ELSE /\ caches' = CacheAfterSet(web_cache, th[t].key, WebResponseData(<<>>))
            /\ set_log' = SetLogAfter(web_cache, th[t].key, WebResponseData(<<>>))
            /\ latest' = LatestAfterSet(web_cache, th[t].key, WebResponseData(<<>>))
            /\ call_log' = Returned(t, out, <<>>, Some(FALSE), th[t].allowed,
                                    backend_log', admissions, caches'[web_cache])
            /\ th' = [th EXCEPT ![t].pc = "idle"]
    /\ UNCHANGED <<graph, fmt, ex, recVars, ops, api_key, clockVars, limVars>>

\* web_search.py 64, 102-120, 85-100: the request to the shopping backend
WebBackend(t, out, payload) ==
    /\ th[t].pc = "backend"
    /\ backend_log' = Append(backend_log, [time |-> now, prog |-> "web", key |-> th[t].key, out |-> out])
    /\ IF out = "ok"
       THEN /\ th' = [th EXCEPT ![t].pc = "web_record", ![t].arg = Some(payload)]
            /\ UNCHANGED call_log
       ELSE /\ call_log' = Returned(t, out, <<>>, Some(FALSE), th[t].allowed,
                                    backend_log', admissions, caches[web_cache])
            /\ th' = [th EXCEPT ![t].pc = "idle"]
    /\ UNCHANGED <<graph, fmt, ex, recVars, ops, api_key, clockVars, limVars, cacheVars>>

\* web_search.py 65: web_rate_limiter.record_call()
WebRecord(t) ==
    /\ th[t].pc = "web_record"
    /\ calls' = CallsAfterRecord
    /\ admissions' = Append(admissions, now)
    /\ th' = [th EXCEPT ![t].pc = "web_set"]
    /\ UNCHANGED <<graph, fmt, ex, recVars, ops, webVars, clockVars, max_calls, pruned_young, cacheVars>>

\* web_search.py 68-83: format, cache the response, return it
WebSet(t) ==
    /\ th[t].pc = "web_set"
    /\ caches' = CacheAfterSet(web_cache, th[t].key, WebResponseData(th[t].arg[1]))
    /\ set_log' = SetLogAfter(web_cache, th[t].key, WebResponseData(th[t].arg[1]))
    /\ latest' = LatestAfterSet(web_cache, th[t].key, WebResponseData(th[t].arg[1]))
    /\ call_log' = Returned(t, "stored", th[t].arg[1], Some(FALSE), th[t].allowed,
                            backend_log, admissions, caches'[web_cache])
    /\ th' = [th EXCEPT ![t].pc = "idle"]
    /\ UNCHANGED <<graph, fmt, ex, recVars, ops, api_key, backend_log, clockVars, limVars>>

\* rag_search.py 30-35
RagBegin(t, req) ==
    /\ th[t].pc \in {"idle", "raised"}
    /\ ops < MaxAdapterCalls
    /\ ops' = ops + 1
    /\ th' = [th EXCEPT ![t] = EnterExecute("rag", rag_cache, req, _create_cache_key(req))]
    /\ UNCHANGED <<graph, fmt, ex, recVars, webVars, clockVars, limVars, cacheVars>>

\* rag_search.py 37-42
RagAfterGet(t) ==
    /\ th[t].pc = "get_done"
    /\ th[t].prog = "rag"
    /\ IF th[t].ret # None
       THEN /\ call_log' = Returned(t, "hit", th[t].ret[1].results, None, None,
                                    backend_log, admissions, caches[rag_cache])
            /\ th' = [th EXCEPT ![t].pc = "idle"]
       ELSE /\ th' = [th EXCEPT ![t].pc = "rag_backend"]
            /\ UNCHANGED call_log
    /\ UNCHANGED <<graph, fmt, ex, recVars, ops, api_key, backend_log, clockVars, limVars, cacheVars>>

RagResponseData(products) ==
    [results |-> products, total_found |-> Len(products), source |-> "private_catalog"]

\* rag_search.py 44-87: embedding and vector query, then cache and return
RagBackend(t, out, products) ==
    /\ th[t].pc = "rag_backend"
    /\ backend_log' = Append(backend_log, [time |-> now, prog |-> "rag", key |-> th[t].key, out |-> out])
    /\ IF out = "ok"
       THEN /\ caches' = CacheAfterSet(rag_cache, th[t].key, RagResponseData(products))
            /\ set_log' = SetLogAfter(rag_cache, th[t].key, RagResponseData(products))
            /\ latest' = LatestAfterSet(rag_cache, th[t].key, RagResponseData(products))
            /\ call_log' = Returned(t, "stored", products, None, None,
                                    backend_log', admissions, caches'[rag_cache])
       ELSE /\ call_log' = Returned(t, out, <<>>, None, None,
                                    backend_log', admissions, caches[rag_cache])
            /\ UNCHANGED cacheVars
    /\ th' = [th EXCEPT ![t].pc = "idle"]
    /\ UNCHANGED <<graph, fmt, ex, recVars, ops, api_key, clockVars, limVars>>

AdapterTicks == {1, ttl_seconds - 1}

AdaptersInit == SrvInit(1, 1..MaxCallsBound, BOOLEAN)

AdaptersNext ==
    \/ \E d \in AdapterTicks : TickAtRest(d)
    \/ \E t \in Threads, req \in WebRequests : WebBegin(t, req)
    \/ \E t \in Threads, req \in RagRequests : RagBegin(t, req)
    \/ \E t \in Threads : GetIn(t)
    \/ \E t \in Threads : GetRead(t)
    \/ \E t \in Threads : GetDel(t)
    \/ \E t \in Threads : WebAfterGet(t)
    \/ \E t \in Threads : RlTest(t)
    \/ \E t \in Threads : RlHead(t)
    \/ \E t \in Threads : RlPop(t)
    \/ \E t \in Threads : WebAfterCheck(t)
    \/ \E t \in Threads, out \in WebOutcomes, payload \in WebPayloads : WebBackend(t, out, payload)
    \/ \E t \in Threads : WebRecord(t)
    \/ \E t \in Threads : WebSet(t)
    \/ \E t \in Threads : RagAfterGet(t)
    \/ \E t \in Threads, out \in RagOutcomes, products \in RagPayloads : RagBackend(t, out, products)

SpecAdapters == AdaptersInit /\ [][AdaptersNext]_vars

\* The parameters of a logged call after normalization: the query text
\* lowercased and trimmed, every other parameter as given.
NormQuery == [q \in {QToySpace, QToy, QCar} |-> Strip(Lower(q))]

NormParams(e) ==
    IF e.prog = "web"
    THEN <<NormQuery[e.req[1].query], e.req[1].max_results>>
    ELSE <<NormQuery[e.req[1].query], e.req[1].price_min, e.req[1].price_max,
           e.req[1].category, e.req[1].eco_friendly, e.req[1].top_k>>

SameCall(a, b) == a.prog = b.prog /\ NormParams(a) = NormParams(b)

\* C6: for either adapter, when a call succeeded (its response came from the
\* backend and was stored) and a later call with the same normalized
\* parameters returns before the TTL after it has elapsed, the later call
\* returns the same results, makes no backend request and takes the cache-hit
\* branch; the web response then carries cached = true.
C6_CacheIdempotent ==
    \A i, j \in DOMAIN call_log :
        (/\ i < j
         /\ SameCall(call_log[i], call_log[j])
         /\ call_log[i].outcome = "stored"
         /\ call_log[j].end < call_log[i].end + ttl_seconds)
        => /\ call_log[j].outcome = "hit"
           /\ call_log[j].results = call_log[i].results
           /\ call_log[j].backend = 0
           /\ call_log[j].prog = "web" => call_log[j].cached = Some(TRUE)

\* a web call was served from the entry stored by an earlier call whose
\* query text differs only in case and surrounding blanks
C6_Witness ==
    \E i, j \in DOMAIN call_log :
        /\ i < j
        /\ call_log[i].prog = "web"
        /\ SameCall(call_log[i], call_log[j])
        /\ call_log[i].req # call_log[j].req
        /\ call_log[i].outcome = "stored"
        /\ call_log[i].results # <<>>
        /\ call_log[j].outcome = "hit"
        /\ call_log[j].end = call_log[i].end + ttl_seconds - 1

\* the same for the catalog adapter
C6_RagHitReached ==
    \E i, j \in DOMAIN call_log :
        /\ i < j
        /\ call_log[i].prog = "rag"
        /\ SameCall(call_log[i], call_log[j])
        /\ call_log[i].req # call_log[j].req
        /\ call_log[i].outcome = "stored"
        /\ call_log[j].outcome = "hit"

\* C9: a web adapter call that the rate limiter rejected returns zero results
\* with cached = false, has made no backend request, recorded no call in the
\* limiter and put nothing into the cache; it returns at once and nothing
\* raises.
C9_RejectedCallIsEmpty ==
    /\ \A i \in DOMAIN call_log :
          (call_log[i].prog = "web" /\ call_log[i].allowed = Some(FALSE))
          => /\ call_log[i].outcome = "rejected"
             /\ call_log[i].results = <<>>
             /\ call_log[i].cached = Some(FALSE)
             /\ call_log[i].backend = 0
             /\ call_log[i].recorded = 0
             /\ ~call_log[i].wrote
    /\ \A t \in Threads :
          /\ th[t].pc # "raised"
          /\ (th[t].prog = "web" /\ th[t].allowed = Some(FALSE)) =>
                 /\ th[t].pc = "idle"
                 /\ call_log # <<>>
                 /\ call_log[Len(call_log)].allowed = Some(FALSE)

\* a call was rejected while the limiter held max_calls fresh timestamps
C9_Witness ==
    \E i \in DOMAIN call_log :
        /\ call_log[i].outcome = "rejected"
        /\ Len(calls) = max_calls
        /\ AdmittedSince(now - Window) = max_calls

\* ======================================================================
\* Concurrent web adapter calls (request threads of the tool server)
\* ======================================================================

ConcTicks == {Window + 1, ttl_seconds}

ConcRequests ==
    { [query |-> QToy, max_results |-> 1],
      [query |-> QCar, max_results |-> 1] }

ConcPayloads == { <<WebA>> }

WebConcInit == SrvInit(MaxThreads, {1}, {TRUE})

WebConcNext ==
    \/ \E d \in ConcTicks : TickAtRest(d)
    \/ \E t \in Threads, req \in ConcRequests : WebBegin(t, req)
    \/ \E t \in Threads : GetIn(t)
    \/ \E t \in Threads : GetRead(t)
    \/ \E t \in Threads : GetDel(t)
    \/ \E t \in Threads : WebAfterGet(t)
    \/ \E t \in Threads : RlTest(t)
    \/ \E t \in Threads : RlHead(t)
    \/ \E t \in Threads : RlPop(t)
    \/ \E t \in Threads : WebAfterCheck(t)
    \/ \E t \in Threads, out \in WebOutcomes, payload \in ConcPayloads : WebBackend(t, out, payload)
    \/ \E t \in Threads : WebRecord(t)
    \/ \E t \in Threads : WebSet(t)

SpecWebConc == WebConcInit /\ [][WebConcNext]_vars

WebRequestsInWindowFrom(s) ==
    Cardinality({i \in DOMAIN backend_log :
                    /\ backend_log[i].prog = "web"
                    /\ backend_log[i].time >= s
                    /\ backend_log[i].time <= s + Window})

\* C5: with concurrent web adapter calls, no 60-second window holds more than
\* max_calls backend requests, no call raises, and is_allowed never prunes a
\* timestamp younger than 60 seconds.
C5_ConcurrentAdmission ==
    /\ \A i \in DOMAIN backend_log : WebRequestsInWindowFrom(backend_log[i].time) <= max_calls
    /\ \A t \in Threads : th[t].pc # "raised"
    /\ ~pruned_young

\* the three parts of C5, each of which the code violates
C5_WindowPart ==
    \A i \in DOMAIN backend_log :
        (\A j \in DOMAIN call_log : call_log[j].outcome \in {"hit", "rejected", "stored"})
        => WebRequestsInWindowFrom(backend_log[i].time) <= max_calls

C5_NoRaisePart == \A t \in Threads : th[t].pc # "raised"

C5_NoYoungPrunePart == ~pruned_young

\* ======================================================================
\* executor_node: src/agents/nodes/executor.py
\* ======================================================================
\* The tool server is the environment here: every POST to /call ends in one
\* of the outcomes below, with any payload.

title_limit == 60
top_products == 5
probe_workers == 5

MaxRagHits == 2

UserQuery == <<"T", "o", "y", " ", "C", "a", "r">>
EcoWord == <<"e", "c", "o">>
EcoPrefix == <<"e", "c", "o", "-", "f", "r", "i", "e", "n", "d", "l", "y", " ">>

ToolPlans == { {"rag.search", "web.search"}, {"web.search"}, {"rag.search"}, {} }

Intents ==
    { [price_min |-> None, price_max |-> None, eco_friendly |-> FALSE],
      [price_min |-> None, price_max |-> Some(1500), eco_friendly |-> TRUE],
      [price_min |-> Some(1500), price_max |-> None, eco_friendly |-> FALSE],
      [price_min |-> Some(1000), price_max |-> Some(2000), eco_friendly |-> FALSE] }

RagCallOutcomes == {"ok", "non_200", "unsuccessful", "exception"}
ProbeOutcomes == {"ok", "timeout", "connection_error", "non_200", "unsuccessful", "exception"}
AltOutcomes == {"ok", "timeout", "non_200", "unsuccessful", "exception"}
ProbePayloads == { <<>>, <<WebA>>, <<WebB, WebA>> }
\* the alternatives query may also return a listing without a price
AltPayloads == ProbePayloads \cup { <<WebC>> }

\* a response body exists unless the request itself failed
HasBody == {"ok", "non_200", "unsuccessful"}

NewProbe(q) == [st |-> "pending", query |-> q, out |-> "none", payload |-> <<>>,
                result |-> <<>>]

ExNew(tools, intent) ==
    [pc |-> "start", tools |-> tools, intent |-> intent, user_query |-> UserQuery,
     rag_results |-> None, probe |-> <<>>, web_results |-> <<>>, merged |-> <<>>,
     alt |-> [out |-> "none", query |-> <<>>, payload |-> <<>>],
     rag_calls |-> 0,       \* history: requests sent to rag.search
     alt_calls |-> 0]       \* history: alternatives queries sent

\* lines 38-71: what the catalog call leaves in results['rag_results']
RagCallResult(out, products) == IF out = "ok" THEN products ELSE <<>>

\* faulty variant: one probe per catalog product, however many there are
ProbeQueriesAll(rag_results_list) ==
    [i \in 1..Len(rag_results_list) |->
        SubSeq(rag_results_list[i].title, 1, Min(title_limit, Len(rag_results_list[i].title)))]

\* lines 90-93: product.get('title', '')[:60] for the first 5 products
ProbeQueries(rag_results_list) ==
    [i \in 1..Min(top_products, Len(rag_results_list)) |->
        SubSeq(rag_results_list[i].title, 1, Min(title_limit, Len(rag_results_list[i].title)))]

\* lines 19-96 and 130-134: the catalog call, then the title probes are
\* submitted to the pool (or, without the web tool, the node returns)
ExStart(out, products) ==
    /\ ex.pc = "start"
    /\ LET rag == IF "rag.search" \in ex.tools
                  THEN Some(RagCallResult(out, products)) ELSE None
           rag_results_list == IF rag = None THEN <<>> ELSE rag[1]
           queries == ProbeQueries(rag_results_list)
           rag_calls == IF "rag.search" \in ex.tools THEN 1 ELSE 0
       IN  ex' = IF "web.search" \notin ex.tools
                 THEN [ex EXCEPT !.pc = "done", !.rag_results = rag,
                                 !.rag_calls = rag_calls]
                 ELSE [ex EXCEPT !.pc = "probing", !.rag_results = rag,
                                 !.rag_calls = rag_calls,
                                 !.probe = [i \in DOMAIN queries |-> NewProbe(queries[i])]]
    /\ UNCHANGED <<recVars, srvVars, fmt, graph>>

ProbesRunning == Cardinality({j \in DOMAIN ex.probe : ex.probe[j].st = "running"})

\* line 130: a pool thread takes the next submitted probe
ProbeStart(i) ==
    /\ ex.pc = "probing"
    /\ ex.probe[i].st = "pending"
    /\ \A j \in 1..(i - 1) : ex.probe[j].st # "pending"
    /\ ProbesRunning < probe_workers
    /\ ex' = [ex EXCEPT !.probe[i].st = "running"]
    /\ UNCHANGED <<recVars, srvVars, fmt, graph>>

\* lines 99-127: what call_web_search returns
call_web_search(out, payload) == IF out = "ok" THEN payload ELSE <<>>

ProbeFinish(i, out, payload) ==
    /\ ex.pc = "probing"
    /\ ex.probe[i].st = "running"
    /\ out \notin HasBody => payload = <<>>
    /\ ex' = [ex EXCEPT !.probe[i] = [@ EXCEPT !.st = "done", !.out = out,
                                               !.payload = payload,
                                               !.result = call_web_search(out, payload)]]
    /\ UNCHANGED <<recVars, srvVars, fmt, graph>>

\* faulty variant: assigns the probe's listings instead of extending the list
ProbeCollectOverwrites(i) ==
    /\ ex.pc = "probing"
    /\ ex.probe[i].st = "done"
    /\ ex' = [ex EXCEPT !.probe[i].st = "collected",
                        !.web_results = IF ex.probe[i].result # <<>>
                                        THEN ex.probe[i].result ELSE @]
    /\ UNCHANGED <<recVars, srvVars, fmt, graph>>

\* lines 136-146: as_completed hands over a finished probe
ProbeCollect(i) ==
    /\ ex.pc = "probing"
    /\ ex.probe[i].st = "done"
    /\ ex' = [ex EXCEPT !.probe[i].st = "collected",
                        !.web_results = IF ex.probe[i].result # <<>>
                                        THEN @ \o ex.probe[i].result ELSE @]
    /\ UNCHANGED <<recVars, srvVars, fmt, graph>>

\* lines 152-159
GeneralQuery(user_query, intent) ==
    IF intent.eco_friendly /\ ~Contains(Lower(user_query), EcoWord)
    THEN EcoPrefix \o Lower(user_query)
    ELSE Lower(user_query)

\* lines 9-17: _extract_price, the same code as in reconciler.py, tabulated
\* for the price strings of the listings
ExtractedPrice == [s \in {w.price : w \in ListingUniverse} |-> _extract_price(s)]

\* lines 204-214
PassesFilter(result, intent) ==
    /\ Truthy(ExtractedPrice[result.price])
    /\ ~(Truthy(intent.price_max) /\ ExtractedPrice[result.price][1] > intent.price_max[1])
    /\ ~(Truthy(intent.price_min) /\ ExtractedPrice[result.price][1] < intent.price_min[1])

RECURSIVE FilterByPrice(_, _)
FilterByPrice(listings, intent) ==
    IF listings = <<>> THEN <<>>
    ELSE IF PassesFilter(Head(listings), intent)
         THEN <<Head(listings)>> \o FilterByPrice(Tail(listings), intent)
         ELSE FilterByPrice(Tail(listings), intent)

\* lines 200-217
PriceFiltered(listings, intent) ==
    IF Truthy(intent.price_max) \/ Truthy(intent.price_min)
    THEN FilterByPrice(listings, intent)
    ELSE listings

\* lines 164-197: the list after the alternatives query
AfterAlternatives(listings, out, payload) ==
    IF out = "ok" THEN listings \o payload ELSE listings

\* lines 148-236: all probes are in; alternatives query, price filter, return
ExFinish(out, payload) ==
    /\ ex.pc = "probing"
    /\ out \notin HasBody => payload = <<>>
    /\ \A i \in DOMAIN ex.probe : ex.probe[i].st = "collected"
    /\ ex' = [ex EXCEPT
                !.pc = "done",
                !.alt_calls = @ + 1,
                !.alt = [out |-> out, payload |-> payload,
                         query |-> GeneralQuery(ex.user_query, ex.intent)],
                !.merged = AfterAlternatives(ex.web_results, out, payload),
                !.web_results = PriceFiltered(AfterAlternatives(ex.web_results, out, payload),
                                              ex.intent)]
    /\ UNCHANGED <<recVars, srvVars, fmt, graph>>

\* lines 219-236: the dict executor_node returns once ex.pc = "done"
output_data ==
    [rag_results |-> ex.rag_results,
     web_results |-> IF "web.search" \in ex.tools THEN Some(ex.web_results) ELSE None]

ExecInit ==
    /\ RecIdle
    /\ SrvIdle
    /\ ex \in {ExNew(tools, intent) : tools \in ToolPlans, intent \in Intents}
    /\ fmt = FmtIdle
    /\ graph = GraphIdle

ExecNext ==
    \/ \E out \in RagCallOutcomes, products \in SeqsUpTo({CatA, CatC}, MaxRagHits) :
          ExStart(out, products)
    \/ \E i \in DOMAIN ex.probe : ProbeStart(i)
    \/ \E i \in DOMAIN ex.probe, out \in ProbeOutcomes, payload \in ProbePayloads :
          ProbeFinish(i, out, payload)
    \/ \E i \in DOMAIN ex.probe : ProbeCollect(i)
    \/ \E out \in AltOutcomes, payload \in AltPayloads : ExFinish(out, payload)

SpecExecutor == ExecInit /\ [][ExecNext]_vars

Occurrences(x, listings) == Cardinality({i \in DOMAIN listings : listings[i] = x})

RECURSIVE SumOver(_, _)
SumOver(f, S) ==
    IF S = {} THEN 0
    ELSE LET i == CHOOSE j \in S : TRUE IN f[i] + SumOver(f, S \ {i})

\* How often listing x was returned by successful probes and by a successful
\* alternatives query.
ReturnedBySuccesses(x) ==
    SumOver([i \in DOMAIN ex.probe |->
                IF ex.probe[i].out = "ok" THEN Occurrences(x, ex.probe[i].payload) ELSE 0],
            DOMAIN ex.probe)
    + (IF ex.alt.out = "ok" THEN Occurrences(x, ex.alt.payload) ELSE 0)

\* C10: whichever title probes fail, and however, executor_node can always
\* take its next step until it has returned; when it has returned with the
\* web tool planned, every dispatched probe was run and collected, the
\* alternatives query was issued, and the merged list (before the price
\* filter) holds each listing exactly as often as the successful probes and
\* the alternatives query returned it: failed probes add nothing.
C10_FailedProbesAddNothing ==
    /\ ex.pc \in {"start", "probing"} => ENABLED ExecNext
    /\ (ex.pc = "done" /\ "web.search" \in ex.tools) =>
          /\ Len(ex.probe) = (IF ex.rag_results = None THEN 0
                              ELSE Min(top_products, Len(ex.rag_results[1])))
          /\ \A i \in DOMAIN ex.probe : ex.probe[i].st = "collected"
          /\ ex.alt.out # "none"
          /\ \A x \in WebUniverse : Occurrences(x, ex.merged) = ReturnedBySuccesses(x)

\* one probe failed, another returned listings that are in the merged list
C10_Witness ==
    /\ ex.pc = "done"
    /\ \E i, j \in DOMAIN ex.probe :
          /\ ex.probe[i].out \notin {"ok", "none"}
          /\ ex.probe[i].payload # <<>>
          /\ ex.probe[j].out = "ok"
          /\ ex.probe[j].payload # <<>>
    /\ ex.alt.out = "ok"
    /\ ex.alt.payload # <<>>
    /\ ex.merged # <<>>

(***************************************************************************)
(* RagSearchTool._format_results (src/mcp_server/tools/rag_search.py).     *)
(* Distances, thresholds and relevance scores are in hundredths.  The      *)
(* candidates are what collection.query returned for n_results = 2*top_k:  *)
(* at most 2*top_k of them, nearest first (ascending distance).            *)
(***************************************************************************)
HARD_THRESHOLD == 130
SOFT_THRESHOLD == 110

MaxCandidates == 3
MaxTopK == 2

Distances == {90, SOFT_THRESHOLD, SOFT_THRESHOLD + 1, 120,
              HARD_THRESHOLD, HARD_THRESHOLD + 1}
HardThresholds == {100, SOFT_THRESHOLD, 120, HARD_THRESHOLD, 135}
SoftThresholds == {100, SOFT_THRESHOLD}

\* results['ids'][0][i], results['metadatas'][0][i], results['distances'][0][i]
Candidate(i, d) == [id |-> i, title |-> CatA.title, distance |-> d]

Ascending(ds) == \A i \in 1..(Len(ds) - 1) : ds[i] <= ds[i + 1]

\* what collection.query can return for n_results = 2 * top_k
QueryResults(top_k) ==
    { [i \in 1..Len(ds) |-> Candidate(i, ds[i])] :
        ds \in {x \in SeqsUpTo(Distances, Min(MaxCandidates, 2 * top_k)) : Ascending(x)} }

\* lines 169-181
ProductOf(c) ==
    [doc_id |-> c.id, title |-> c.title, relevance_score |-> 100 - c.distance]

\* faulty variant: the loop does not stop at top_k
RECURSIVE FormatLoopNoBreak(_, _, _, _, _, _, _)
FormatLoopNoBreak(cands, i, top_k, hard, soft, products, low) ==
    IF i > Len(cands) THEN [products |-> products, low |-> low]
    ELSE IF cands[i].distance > hard
    THEN FormatLoopNoBreak(cands, i + 1, top_k, hard, soft, products, low)
    ELSE FormatLoopNoBreak(cands, i + 1, top_k, hard, soft,
                           Append(products, ProductOf(cands[i])),
                           IF cands[i].distance > soft THEN low + 1 ELSE low)

\* lines 151-186: the loop from candidate i on, with the products appended and
\* the low-confidence candidates counted so far
RECURSIVE FormatLoop(_, _, _, _, _, _, _)
FormatLoop(cands, i, top_k, hard, soft, products, low) ==
    IF i > Len(cands) THEN [products |-> products, low |-> low]
    ELSE IF cands[i].distance > hard
    THEN FormatLoop(cands, i + 1, top_k, hard, soft, products, low)
    ELSE IF Len(products) + 1 >= top_k
    THEN [products |-> Append(products, ProductOf(cands[i])),
          low |-> IF cands[i].distance > soft THEN low + 1 ELSE low]
    ELSE FormatLoop(cands, i + 1, top_k, hard, soft,
                    Append(products, ProductOf(cands[i])),
                    IF cands[i].distance > soft THEN low + 1 ELSE low)

\* faulty variant: one low-confidence product is enough to return nothing
AnyLowConfidence(r) == r.low > 0

\* line 189
AllLowConfidence(r) == r.products # <<>> /\ r.low = Len(r.products)

\* lines 189-202
FormatReturn(r) == IF AllLowConfidence(r) THEN <<>> ELSE r.products

\* lines 137-202, with the two thresholds of lines 145-146 as parameters
FormatWith(results, top_k, hard, soft) ==
    IF results = <<>> THEN <<>>
    ELSE FormatReturn(FormatLoop(results, 1, top_k, hard, soft, <<>>, 0))

_format_results(results, top_k) ==
    FormatWith(results, top_k, HARD_THRESHOLD, SOFT_THRESHOLD)

FmtNew(results, top_k, hard, soft) ==
    [pc |-> "new", results |-> results, top_k |-> top_k, hard |-> hard,
     soft |-> soft, products |-> <<>>, prev |-> None]

\* one application of _format_results
FormatResults ==
    /\ fmt.pc = "new"
    /\ fmt' = [fmt EXCEPT !.pc = "formatted",
                          !.products = FormatWith(fmt.results, fmt.top_k,
                                                  fmt.hard, fmt.soft)]
    /\ UNCHANGED <<recVars, srvVars, ex, graph>>

\* the same candidates, top_k and soft threshold are formatted again under a
\* higher hard threshold; the earlier threshold and result are remembered
RaiseHardThreshold(h) ==
    /\ fmt.pc = "formatted"
    /\ fmt.prev = None
    /\ h > fmt.hard
    /\ fmt' = [fmt EXCEPT !.hard = h,
                          !.prev = Some([hard |-> fmt.hard, products |-> fmt.products]),
                          !.products = FormatWith(fmt.results, fmt.top_k, h, fmt.soft)]
    /\ UNCHANGED <<recVars, srvVars, ex, graph>>

FormatInit ==
    /\ RecIdle
    /\ SrvIdle
    /\ ex = ExIdle
    /\ graph = GraphIdle
    /\ \E top_k \in 1..MaxTopK :
         fmt \in {FmtNew(results, top_k, hard, soft) :
                    results \in QueryResults(top_k), hard \in HardThresholds,
                    soft \in SoftThresholds}

FormatNext ==
    \/ FormatResults
    \/ \E h \in HardThresholds : RaiseHardThreshold(h)

SpecFormat == FormatInit /\ [][FormatNext]_vars

(***************************************************************************)
(* C12.  For fixed candidates, soft threshold and top_k, raising the hard  *)
(* distance threshold never makes _format_results return fewer products:   *)
(* what it returned under the lower threshold is a prefix of what it       *)
(* returns under the higher one.                                           *)
(***************************************************************************)
C12_RaisingNeverDecreases ==
    fmt.pc = "formatted" /\ fmt.prev # None =>
        LET before == fmt.prev[1].products
        IN  /\ Len(fmt.products) >= Len(before)
            /\ SubSeq(fmt.products, 1, Len(before)) = before

\* the higher threshold lets in a candidate that the lower one dropped
C12_Witness ==
    /\ fmt.pc = "formatted" /\ fmt.prev # None
    /\ Len(fmt.products) > Len(fmt.prev[1].products)

\* C12 as stated: raising the hard threshold never increases the number of
\* products returned
C12_RaisingNeverIncreases ==
    fmt.pc = "formatted" /\ fmt.prev # None =>
        Len(fmt.products) <= Len(fmt.prev[1].products)

(***************************************************************************)
(* C13.  _format_results returns the empty list exactly when no candidate  *)
(* is within the hard threshold or every candidate within it is            *)
(* low-confidence (distance above the soft threshold); otherwise it        *)
(* returns the first min(top_k, number of survivors) surviving candidates, *)
(* in order, as products.                                                  *)
(***************************************************************************)
Survivors(results, hard) == SelectSeq(results, LAMBDA c : c.distance <= hard)

AllSurvivorsLow(surv, soft) == \A i \in 1..Len(surv) : surv[i].distance > soft

ReturnsSurvivors(products, surv, top_k) ==
    /\ Len(products) = Min(Len(surv), top_k)
    /\ \A i \in 1..Len(products) :
         /\ products[i].doc_id = surv[i].id
         /\ products[i].relevance_score = 100 - surv[i].distance

C13_EmptyIffNoneOrAllLow ==
    fmt.pc = "formatted" =>
        IF AllSurvivorsLow(Survivors(fmt.results, fmt.hard), fmt.soft)
        THEN fmt.products = <<>>
        ELSE /\ fmt.products # <<>>
             /\ ReturnsSurvivors(fmt.products, Survivors(fmt.results, fmt.hard),
                                 fmt.top_k)

\* under the thresholds of the code: three candidates survive, the nearest
\* one is a good match, the others are low-confidence, and top_k = 2 are returned
C13_Witness ==
    /\ fmt.pc = "formatted"
    /\ fmt.hard = HARD_THRESHOLD /\ fmt.soft = SOFT_THRESHOLD
    /\ fmt.top_k = 2
    /\ Len(Survivors(fmt.results, fmt.hard)) = 3
    /\ fmt.results[1].distance <= SOFT_THRESHOLD
    /\ fmt.results[2].distance > SOFT_THRESHOLD
    /\ Len(fmt.products) = 2

\* under the thresholds of the code: candidates survive, all of them
\* low-confidence, and nothing is returned
C13_WitnessSuppressed ==
    /\ fmt.pc = "formatted"
    /\ fmt.hard = HARD_THRESHOLD /\ fmt.soft = SOFT_THRESHOLD
    /\ Survivors(fmt.results, fmt.hard) # <<>>
    /\ fmt.products = <<>>

(***************************************************************************)
(* executor_node followed by reconciler_node (src/agents/graph.py): the    *)
(* executor's output is merged into the graph state, then the reconciler   *)
(* runs on it.                                                             *)
(***************************************************************************)
PipePlans == { {"rag.search", "web.search"}, {"web.search"} }
PipeIntents == { [price_min |-> None, price_max |-> None, eco_friendly |-> FALSE] }
PipeOutcomes == {"ok", "timeout"}
PipePayloads == { <<>>, <<WebB, WebA>>, <<WebD>> }

\* graph.py line 42: the edge executor -> reconciler; the keys the executor
\* set are in the state
Handoff ==
    /\ ex.pc = "done"
    /\ rec_pc = "idle"
    /\ state' = GraphState(IF output_data.rag_results = None THEN <<>>
                           ELSE <<output_data.rag_results>>,
                           IF output_data.web_results = None THEN <<>>
                           ELSE <<output_data.web_results>>)
    /\ rec_pc' = "start"
    /\ UNCHANGED <<rag_results, web_results, task, used_web_indices, matched_pairs,
                   conflicts, comparison_table, srvVars, ex, fmt, graph>>

PipelineInit ==
    /\ RecIdle
    /\ SrvIdle
    /\ ex \in {ExNew(tools, intent) : tools \in PipePlans, intent \in PipeIntents}
    /\ fmt = FmtIdle
    /\ graph = GraphIdle

PipelineNext ==
    \/ \E out \in PipeOutcomes, products \in SeqsUpTo({CatA, CatC}, MaxRagHits) :
          ExStart(out, products)
    \/ \E i \in DOMAIN ex.probe : ProbeStart(i)
    \/ \E i \in DOMAIN ex.probe, out \in PipeOutcomes, payload \in PipePayloads :
          ProbeFinish(i, out, payload)
    \/ \E i \in DOMAIN ex.probe : ProbeCollect(i)
    \/ \E out \in PipeOutcomes, payload \in PipePayloads : ExFinish(out, payload)
    \/ Handoff
    \/ RecNext

SpecPipeline == PipelineInit /\ [][PipelineNext]_vars

\* what a row shows: the fields of the code's rows, without rag_idx and web_idx
Visible(row) ==
    [title |-> row.title, brand |-> row.brand, catalog_price |-> row.catalog_price,
     web_price |-> row.web_price, catalog_id |-> row.catalog_id,
     web_url |-> row.web_url, web_source |-> row.web_source,
     image_url |-> row.image_url, product_url |-> row.product_url,
     eco_friendly |-> row.eco_friendly, rating |-> row.rating,
     reviews |-> row.reviews, match_confidence |-> row.match_confidence,
     has_conflict |-> row.has_conflict, sources |-> row.sources, type |-> row.type]

VisibleRows(rows) == [k \in DOMAIN rows |-> Visible(rows[k])]

RECURSIVE IsSubsequence(_, _)
IsSubsequence(a, b) ==
    IF a = <<>> THEN TRUE
    ELSE IF b = <<>> THEN FALSE
    ELSE IF Head(a) = Head(b) THEN IsSubsequence(Tail(a), Tail(b))
    ELSE IsSubsequence(a, Tail(b))

\* every query got one response: probes with the same query got the same one
FixedPerQuery ==
    \A i, j \in DOMAIN ex.probe :
        ex.probe[i].query = ex.probe[j].query =>
            /\ ex.probe[i].out = ex.probe[j].out
            /\ ex.probe[i].payload = ex.probe[j].payload

\* the web list the executor returns for the same responses when the probes
\* complete in the order they were dispatched
InDispatchOrder ==
    PriceFiltered(AfterAlternatives(Flatten([i \in DOMAIN ex.probe |-> ex.probe[i].result]),
                                    ex.alt.out, ex.alt.payload),
                  ex.intent)

(***************************************************************************)
(* C14.  For fixed responses to each query, the rows of the comparison     *)
(* table do not depend on the order in which the title probes complete.    *)
(* The run in which the probes complete in dispatch order lists its        *)
(* web_only rows in the order of InDispatchOrder, so in every run the      *)
(* web_only rows, as shown, must be a subsequence of the web_only rows of  *)
(* InDispatchOrder.                                                        *)
(***************************************************************************)
C14_TableIndependentOfCompletionOrder ==
    (ex.pc = "done" /\ rec_pc = "done" /\ FixedPerQuery) =>
        IsSubsequence(
            VisibleRows(SelectSeq(comparison_table, LAMBDA r : r.type = "web_only")),
            VisibleRows(WebOnlyTable(InDispatchOrder)))

(***************************************************************************)
(* C18.  Every invocation of executor_node sends exactly one request to    *)
(* the catalog adapter, whatever tools_to_call contains, and sends it      *)
(* before any title probe is dispatched: once the node is past its catalog *)
(* step (probing or returned), exactly one request has been sent.          *)
(***************************************************************************)
C18_CatalogCalledOnce ==
    ex.pc \in {"probing", "done"} => ex.rag_calls = 1

\* C18 for the plans that name rag.search: one request, sent before the
\* probes
C18_CalledOnceWhenPlanned ==
    (ex.pc \in {"probing", "done"} /\ "rag.search" \in ex.tools) => ex.rag_calls = 1

(***************************************************************************)
(* executor_node with more catalog candidates than title probes: the       *)
(* catalog returns up to MaxWideHits copies of one product, a probe        *)
(* succeeds (with or without listings) or times out.                       *)
(***************************************************************************)
MaxWideHits == 6

WideIntents ==
    { [price_min |-> None, price_max |-> None, eco_friendly |-> FALSE],
      [price_min |-> None, price_max |-> None, eco_friendly |-> TRUE] }
WideOutcomes == {"ok", "timeout"}
WidePayloads == { <<>>, <<WebA>> }
WideCatalogs == {[i \in 1..n |-> CatA] : n \in 0..MaxWideHits}

WideInit ==
    /\ RecIdle
    /\ SrvIdle
    /\ ex \in {ExNew(tools, intent) : tools \in ToolPlans, intent \in WideIntents}
    /\ fmt = FmtIdle
    /\ graph = GraphIdle

WideNext ==
    \/ \E out \in WideOutcomes, products \in WideCatalogs : ExStart(out, products)
    \/ \E i \in DOMAIN ex.probe : ProbeStart(i)
    \/ \E i \in DOMAIN ex.probe, out \in WideOutcomes, payload \in WidePayloads :
          ProbeFinish(i, out, payload)
    \/ \E i \in DOMAIN ex.probe : ProbeCollect(i)
    \/ \E out \in WideOutcomes, payload \in WidePayloads : ExFinish(out, payload)

SpecExecutorWide == WideInit /\ [][WideNext]_vars

(***************************************************************************)
(* C19.  When the plan names web.search, executor_node sends exactly one   *)
(* alternatives query per invocation, built from the user query (lowered,  *)
(* with the eco-friendly prefix when asked for and not already there),     *)
(* with or without catalog candidates, and only once every dispatched      *)
(* title probe has completed or failed; it dispatches one probe per        *)
(* catalog candidate but at most 5, and at most 5 are in flight at once.   *)
(***************************************************************************)
CatalogCandidates == IF ex.rag_results = None THEN <<>> ELSE ex.rag_results[1]

ProbesOver == \A i \in DOMAIN ex.probe : ex.probe[i].st \in {"done", "collected"}

C19_OneAlternativesQueryAfterProbes ==
    /\ ex.alt_calls <= 1
    /\ ex.alt_calls = 1 =>
         /\ ProbesOver
         /\ ex.alt.query \in {Lower(ex.user_query), EcoPrefix \o Lower(ex.user_query)}
         /\ (ex.alt.query # Lower(ex.user_query)) <=>
               (ex.intent.eco_friendly /\ ~Contains(Lower(ex.user_query), EcoWord))
    /\ (ex.pc = "done" /\ "web.search" \in ex.tools) => ex.alt_calls = 1
    /\ (ex.pc = "done" /\ "web.search" \notin ex.tools) => ex.alt_calls = 0
    /\ ex.pc # "start" =>
         /\ Len(ex.probe) <= 5
         /\ "web.search" \in ex.tools => Len(ex.probe) = Min(5, Len(CatalogCandidates))
    /\ ProbesRunning <= 5

\* six catalog candidates and five probes, one of which timed out; the node
\* has returned after its single alternatives query
C19_Witness ==
    /\ ex.pc = "done"
    /\ Len(CatalogCandidates) = 6
    /\ Len(ex.probe) = 5
    /\ \E i \in DOMAIN ex.probe : ex.probe[i].out = "timeout"
    /\ ex.alt_calls = 1
    /\ ex.intent.eco_friendly

\* five probes in flight at once
C19_WitnessInFlight == ex.pc = "probing" /\ ProbesRunning = 5

\* the alternatives query is sent although the catalog returned nothing
C19_WitnessNoCandidates ==
    /\ ex.pc = "done" /\ ex.alt_calls = 1 /\ CatalogCandidates = <<>> /\ ex.probe = <<>>

(***************************************************************************)
(* C20.  After the price filter the returned web list is the merged list   *)
(* minus the listings whose numeric price is below a supplied price_min or *)
(* above a supplied price_max, in merge order: everything returned is      *)
(* within the supplied bounds and every merged listing that is not outside *)
(* a supplied bound is kept.                                               *)
(***************************************************************************)
OutsideBounds(listing, intent) ==
    /\ ExtractedPrice[listing.price] # None
    /\ \/ intent.price_min # None /\ ExtractedPrice[listing.price][1] < intent.price_min[1]
       \/ intent.price_max # None /\ ExtractedPrice[listing.price][1] > intent.price_max[1]

Inside(listing) == ~OutsideBounds(listing, ex.intent)

C20_FilterDropsOnlyOutside ==
    (ex.pc = "done" /\ "web.search" \in ex.tools) =>
        ex.web_results = SelectSeq(ex.merged, Inside)

\* the half of C20 that holds: what is returned is a subsequence of the merged
\* list and lies within the supplied bounds
C20_ReturnedWithinBounds ==
    (ex.pc = "done" /\ "web.search" \in ex.tools) =>
        /\ IsSubsequence(ex.web_results, ex.merged)
        /\ \A k \in 1..Len(ex.web_results) : Inside(ex.web_results[k])

(***************************************************************************)
(* C21.  Two requests to an adapter share a cache entry exactly when their *)
(* lowercased, trimmed query texts are equal and every other parameter is  *)
(* equal, so a cache hit returns what was stored for a request with the    *)
(* same normalized parameters: the call that stored the entry a hit is     *)
(* served from has the same normalized parameters as the hit.              *)
(***************************************************************************)
\* the cache key of a logged call (WebCacheKey, _create_cache_key), with the
\* normalized query text read from the table NormQuery
KeyOfCall(e) ==
    IF e.prog = "web"
    THEN <<"web_search:", NormQuery[e.req[1].query]>>
    ELSE <<"rag_search:", NormQuery[e.req[1].query], e.req[1].price_min,
           e.req[1].price_max, e.req[1].category, e.req[1].eco_friendly,
           e.req[1].top_k>>

\* the stored calls before call j that wrote the entry call j reads
StoredBefore(j) ==
    {i \in 1..(j - 1) : /\ call_log[i].prog = call_log[j].prog
                        /\ call_log[i].outcome = "stored"
                        /\ KeyOfCall(call_log[i]) = KeyOfCall(call_log[j])}

C21_KeysEncodeAllParameters ==
    \A j \in DOMAIN call_log :
        call_log[j].outcome = "hit" =>
            /\ StoredBefore(j) # {}
            /\ SameCall(call_log[SetMax(StoredBefore(j))], call_log[j])

\* C21 for the catalog adapter alone, whose key holds every parameter
C21_RagKeysEncodeAllParameters ==
    \A j \in DOMAIN call_log :
        (call_log[j].outcome = "hit" /\ call_log[j].prog = "rag") =>
            /\ StoredBefore(j) # {}
            /\ SameCall(call_log[SetMax(StoredBefore(j))], call_log[j])

(***************************************************************************)
(* C22.  Both adapters write to the cache only after a successful backend  *)
(* response: a call that ends in a rate-limit rejection, a missing API     *)
(* key, an HTTP error or another exception adds and changes no entry, so   *)
(* the next call with the same cache key (no stored call in between) is    *)
(* not served from the cache, and it sends a backend request unless it is  *)
(* itself rejected or lacks the API key.                                   *)
(***************************************************************************)
FailedOutcomes == {"rejected", "no_key", "http_error", "error"}

SameEntry(a, b) == a.prog = b.prog /\ KeyOfCall(a) = KeyOfCall(b)

NoStoreBetween(i, j) ==
    \A k \in (i + 1)..(j - 1) :
        ~(call_log[k].outcome = "stored" /\ SameEntry(call_log[k], call_log[i]))

C22_CacheWrittenOnlyOnSuccess ==
    \A i \in DOMAIN call_log :
        call_log[i].outcome \in FailedOutcomes =>
            /\ ~call_log[i].wrote
            /\ \A j \in (i + 1)..Len(call_log) :
                 (SameEntry(call_log[i], call_log[j]) /\ NoStoreBetween(i, j)) =>
                     /\ call_log[j].outcome # "hit"
                     /\ call_log[j].outcome \notin {"rejected", "no_key"}
                          => call_log[j].backend = 1

\* a web call ended in an HTTP error, and the next call with the same query
\* went to the backend again and was stored
C22_Witness ==
    \E i \in DOMAIN call_log :
        /\ i < Len(call_log)
        /\ call_log[i].prog = "web"
        /\ call_log[i].outcome = "http_error"
        /\ SameEntry(call_log[i], call_log[i + 1])
        /\ call_log[i + 1].outcome = "stored"
        /\ call_log[i + 1].backend = 1

\* the same for the catalog adapter after an exception
C22_WitnessRag ==
    \E i \in DOMAIN call_log :
        /\ i < Len(call_log)
        /\ call_log[i].prog = "rag"
        /\ call_log[i].outcome = "error"
        /\ SameEntry(call_log[i], call_log[i + 1])
        /\ call_log[i + 1].outcome = "stored"

(***************************************************************************)
(* C23.  Every web backend request that was admitted by the rate limiter   *)
(* and sent is timestamped by record_call, whatever its outcome (success,  *)
(* HTTP error, timeout or another exception).                              *)
(***************************************************************************)
C23_SentRequestsRecorded ==
    \A i \in DOMAIN call_log :
        (call_log[i].prog = "web" /\ call_log[i].backend = 1) =>
            call_log[i].recorded = 1

\* what the code does: the requests that returned a response are recorded
C23_SuccessfulRequestsRecorded ==
    \A i \in DOMAIN call_log :
        (call_log[i].prog = "web" /\ call_log[i].outcome = "stored") =>
            call_log[i].backend = 1 /\ call_log[i].recorded = 1

(***************************************************************************)
(* C24.  For each catalog product, _find_best_match_for_product returns a  *)
(* pair if and only if some web listing that was not in the claimed set    *)
(* when the scan reached it has composite score strictly greater than 0.5; *)
(* the listing it returns has the maximum composite score among those      *)
(* unclaimed listings, and among listings with that score the one with     *)
(* the lowest index.                                                       *)
(***************************************************************************)
\* the listings of a finished scan that were unclaimed when scanned and score
\* above the acceptance threshold
Eligible(i) ==
    {w \in DOMAIN web_results :
        /\ w \notin task[i].skipped
        /\ FracGT(ScoreTable[rag_results[i], web_results[w]], AcceptThreshold)}

ScoreOf(i, w) == ScoreTable[rag_results[i], web_results[w]]

C24_BestUnclaimedListing ==
    \A i \in DOMAIN task :
        task[i].st \in {"done", "collected"} =>
            /\ (MatchResult(i) # <<>>) <=> (Eligible(i) # {})
            /\ MatchResult(i) # <<>> =>
                 LET r == MatchResult(i)[1].web_idx
                 IN /\ r \in Eligible(i)
                    /\ MatchResult(i)[1].web_product = web_results[r]
                    /\ \A w \in Eligible(i) :
                         /\ ~FracGT(ScoreOf(i, w), ScoreOf(i, r))
                         /\ ScoreOf(i, w) = ScoreOf(i, r) => r <= w

\* a finished scan returned the first of two unclaimed listings with the same
\* maximum score
C24_Witness ==
    \E i \in DOMAIN task :
        /\ task[i].st \in {"done", "collected"}
        /\ MatchResult(i) # <<>>
        /\ \E w \in Eligible(i) :
             /\ w > MatchResult(i)[1].web_idx
             /\ ScoreOf(i, w) = ScoreOf(i, MatchResult(i)[1].web_idx)

\* a finished scan returned None although listings score above the threshold:
\* all of them were claimed
C24_WitnessNone ==
    \E i \in DOMAIN task :
        /\ task[i].st \in {"done", "collected"}
        /\ MatchResult(i) = <<>>
        /\ \E w \in task[i].skipped : FracGT(ScoreOf(i, w), AcceptThreshold)

(***************************************************************************)
(* The matcher on products and listings whose scores lie just above the    *)
(* thresholds 0.5 and 0.7.                                                 *)
(***************************************************************************)
EdgeInit ==
    /\ state \in {GraphState(<<Some(r)>>, <<Some(w)>>) :
                      r \in SeqsUpTo(EdgeCatalog, MaxCat) \ {<<>>},
                      w \in SeqsUpTo(EdgeListings, MaxWeb) \ {<<>>}}
    /\ rag_results = <<>>
    /\ web_results = <<>>
    /\ rec_pc = "start"
    /\ task = <<>>
    /\ used_web_indices = {}
    /\ matched_pairs = <<>>
    /\ conflicts = <<>>
    /\ comparison_table = <<>>
    /\ SrvIdle
    /\ ex = ExIdle
    /\ fmt = FmtIdle
    /\ graph = GraphIdle

SpecMatcherEdge == EdgeInit /\ [][RecNext]_vars

(***************************************************************************)
(* C25.  Every pair returned by the matcher carries a similarity_score     *)
(* strictly greater than 0.5 and at most 1.0 (in thousandths: above 500,   *)
(* at most 1000), and its match_type is 'brand_title' exactly when the     *)
(* carried similarity_score is greater than 0.7, 'partial' otherwise.      *)
(***************************************************************************)
C25_CarriedScoreAndType ==
    \A k \in DOMAIN matched_pairs :
        /\ matched_pairs[k].similarity_score > 500
        /\ matched_pairs[k].similarity_score <= 1000
        /\ matched_pairs[k].match_type \in {"brand_title", "partial"}
        /\ matched_pairs[k].match_type = "brand_title"
             <=> matched_pairs[k].similarity_score > 700

\* what the code guarantees: the thresholds are applied to the unrounded score,
\* so the carried score is at least 0.5, and at least 0.7 for 'brand_title'
C25_CarriedScoreAtLeast ==
    \A k \in DOMAIN matched_pairs :
        /\ matched_pairs[k].similarity_score >= 500
        /\ matched_pairs[k].similarity_score <= 1000
        /\ matched_pairs[k].match_type = "brand_title"
             => matched_pairs[k].similarity_score >= 700
        /\ matched_pairs[k].match_type = "partial"
             => matched_pairs[k].similarity_score <= 700

(***************************************************************************)
(* C26.  Within the TTL after a successful response, the web backend is    *)
(* called at most once per normalized query text, also when identical      *)
(* queries are in flight concurrently: no request for the same cache key   *)
(* is sent less than ttl_seconds after a request that succeeded.           *)
(***************************************************************************)
RedundantRequests ==
    {<<a, b>> \in (DOMAIN backend_log) \X (DOMAIN backend_log) :
        /\ a < b
        /\ backend_log[a].prog = "web"
        /\ backend_log[b].prog = "web"
        /\ backend_log[a].key = backend_log[b].key
        /\ backend_log[a].out = "ok"
        /\ backend_log[b].time - backend_log[a].time < ttl_seconds}

MaxGraphWebCalls == 2

GraphQueries == {"toy car", "weapon"}
GraphIntents == {"toys", "none"}
\* json `is_safe`: true, false or null
Verdicts == {Some(TRUE), Some(FALSE), None}
GraphPlans == {<<"rag.search">>, <<"rag.search", "web.search">>, <<"web.search">>, <<>>}

\* state.get(key, default)
StateGet(st, key, default) == IF key \in DOMAIN st THEN st[key] ELSE default

\* `if state.get('is_safe', True)`: None and False are falsy
IsSafe(st) == StateGet(st, "is_safe", Some(TRUE)) = Some(TRUE)

\* faulty variant: every query continues to the planner
check_safetyAlwaysPlanner(st) == "planner"

\* graph.py 30-34
check_safety(st) == IF IsSafe(st) THEN "planner" ELSE "synthesizer"

\* graph.py 27, 41-44: add_edge
Edges ==
    [n \in {"router", "planner", "executor", "reconciler", "synthesizer"} |->
        CASE n = "router" -> "safety"
          [] n = "planner" -> "executor"
          [] n = "executor" -> "reconciler"
          [] n = "reconciler" -> "synthesizer"
          [] n = "synthesizer" -> "END"]

\* graph.py 36-39: the conditional edge out of safety, the fixed edges elsewhere
NextNode(n, st) == IF n = "safety" THEN check_safety(st) ELSE Edges[n]

\* a node has run: its output is merged and the edge is taken, or it raised
GraphStep(n, out, raised) ==
    LET st == [k \in DOMAIN graph.st \cup DOMAIN out |->
                  IF k \in DOMAIN out THEN out[k] ELSE graph.st[k]]
    IN IF raised
       THEN [graph EXCEPT !.node = "failed", !.trace = Append(graph.trace, n)]
       ELSE [graph EXCEPT !.node = NextNode(n, st), !.trace = Append(graph.trace, n),
                          !.st = st]

\* router.py 16-75
router_node(intent, raised) ==
    /\ graph.node = "router"
    /\ graph' = GraphStep("router", [k \in {"intent"} |-> intent], raised)
    /\ UNCHANGED <<recVars, srvVars, ex, fmt>>

\* safety.py 16-75
safety_node(is_safe, raised) ==
    /\ graph.node = "safety"
    /\ graph' = GraphStep("safety", [k \in {"is_safe"} |-> is_safe], raised)
    /\ UNCHANGED <<recVars, srvVars, ex, fmt>>

\* planner.py 16-83
planner_node(tools, raised) ==
    /\ graph.node = "planner"
    /\ graph' = GraphStep("planner", [k \in {"tools_to_call"} |-> tools], raised)
    /\ UNCHANGED <<recVars, srvVars, ex, fmt>>

InPlan(tool, st) ==
    \E i \in DOMAIN StateGet(st, "tools_to_call", <<>>) : st["tools_to_call"][i] = tool

\* executor.py 19-236: one catalog request when rag.search is planned, nweb
\* web requests when web.search is planned; request failures are caught
executor_node(nweb) ==
    /\ graph.node = "executor"
    /\ LET rag == IF InPlan("rag.search", graph.st) THEN 1 ELSE 0
           web == IF InPlan("web.search", graph.st) THEN nweb ELSE 0
       IN graph' = [GraphStep("executor",
                              [k \in {"rag_results", "web_results"} |->
                                  IF k = "rag_results" THEN rag ELSE web],
                              FALSE)
                       EXCEPT !.rag_calls = graph.rag_calls + rag,
                              !.web_calls = graph.web_calls + web]
    /\ UNCHANGED <<recVars, srvVars, ex, fmt>>

\* reconciler.py 263-407
graph_reconciler_node ==
    /\ graph.node = "reconciler"
    /\ graph' = GraphStep("reconciler", [k \in {"comparison_table"} |-> "table"], FALSE)
    /\ UNCHANGED <<recVars, srvVars, ex, fmt>>

\* synthesizer.py 18-231: the refusal of lines 30-58 is returned without a
\* call to the language model; otherwise the model is called and may raise
synthesizer_node(raised) ==
    /\ graph.node = "synthesizer"
    /\ IF ~IsSafe(graph.st)
       THEN /\ ~raised
            /\ graph' = GraphStep("synthesizer", [k \in {"final_answer"} |-> "refusal"],
                                  FALSE)
       ELSE graph' = GraphStep("synthesizer", [k \in {"final_answer"} |-> "answer"],
                               raised)
    /\ UNCHANGED <<recVars, srvVars, ex, fmt>>

\* graph.py 55: agent_graph.invoke({"user_query": query})
GraphInit ==
    /\ RecIdle
    /\ SrvIdle
    /\ ex = ExIdle
    /\ fmt = FmtIdle
    /\ \E q \in GraphQueries :
         graph = [node |-> "router", trace |-> <<>>,
                  st |-> [k \in {"user_query"} |-> q],
                  rag_calls |-> 0, web_calls |-> 0]

GraphNext ==
    \/ \E intent \in GraphIntents, raised \in BOOLEAN : router_node(intent, raised)
    \/ \E is_safe \in Verdicts, raised \in BOOLEAN : safety_node(is_safe, raised)
    \/ \E tools \in GraphPlans, raised \in BOOLEAN : planner_node(tools, raised)
    \/ \E nweb \in 1..MaxGraphWebCalls : executor_node(nweb)
    \/ graph_reconciler_node
    \/ \E raised \in BOOLEAN : synthesizer_node(raised)

SpecGraph == GraphInit /\ [][GraphNext]_vars

\* every node that is enabled is eventually run
SpecGraphFair == SpecGraph /\ WF_vars(GraphNext)

(***************************************************************************)
(* C27.  The nodes run in the order router, safety, then planner,          *)
(* executor, reconciler, synthesizer when the query is judged safe, or     *)
(* synthesizer directly when it is judged unsafe; for an unsafe query the  *)
(* planner, executor and reconciler never run and no catalog or web        *)
(* request is sent; the run ends after the synthesizer, which is the last  *)
(* node of every run that ends.                                            *)
(***************************************************************************)
SafePath == <<"router", "safety", "planner", "executor", "reconciler", "synthesizer">>
UnsafePath == <<"router", "safety", "synthesizer">>

Judged(v) == "is_safe" \in DOMAIN graph.st /\ graph.st["is_safe"] = v

HasRun(n) == \E i \in DOMAIN graph.trace : graph.trace[i] = n

C27_NodeOrder ==
    graph.node # "idle" =>
        /\ IsPrefix(graph.trace, SafePath) \/ IsPrefix(graph.trace, UnsafePath)
        /\ Judged(Some(TRUE)) => IsPrefix(graph.trace, SafePath)
        /\ Judged(Some(FALSE)) =>
             /\ IsPrefix(graph.trace, UnsafePath)
             /\ ~HasRun("planner") /\ ~HasRun("executor") /\ ~HasRun("reconciler")
             /\ graph.rag_calls = 0 /\ graph.web_calls = 0
        /\ graph.node = "END" =>
             /\ graph.trace \in {SafePath, UnsafePath}
             /\ "final_answer" \in DOMAIN graph.st
             /\ graph.st["final_answer"] = "refusal" <=> graph.trace = UnsafePath
        /\ (HasRun("synthesizer") /\ graph.node # "failed") => graph.node = "END"

\* an unsafe query went from safety to the synthesizer and the run ended
C27_Witness ==
    /\ graph.node = "END"
    /\ Judged(Some(FALSE))
    /\ graph.trace = UnsafePath

\* a safe query ran the long path to the end and sent requests
C27_WitnessSafe ==
    /\ graph.node = "END"
    /\ Judged(Some(TRUE))
    /\ graph.trace = SafePath
    /\ graph.rag_calls = 1 /\ graph.web_calls > 0

\* once a query is judged unsafe the run ends (the refusal needs no model call)
C27_UnsafeRunEnds == Judged(Some(FALSE)) ~> (graph.node = "END")

(***************************************************************************)
(* C28.  A web adapter call whose normalized query has an unexpired cache  *)
(* entry is served from the cache without consulting the rate limiter: it  *)
(* returns the cached results with cached = true even when the limiter is  *)
(* exhausted, sends no request, records no call and leaves the limiter's   *)
(* state as it was.                                                        *)
(***************************************************************************)
\* the step that follows web_cache.get in thread t, when get returned an entry
ServedFromCache(t) ==
    /\ th[t].prog = "web"
    /\ th[t].pc = "get_done"
    /\ th[t].ret # None
    /\ th'[t] # th[t]

HitStep(t) ==
    /\ th'[t].pc = "idle"
    /\ UNCHANGED <<limVars, backend_log>>
    /\ Len(call_log') = Len(call_log) + 1
    /\ LET e == call_log'[Len(call_log')]
       IN /\ e.thread = t
          /\ e.outcome = "hit"
          /\ e.results = th[t].ret[1].results
          /\ e.cached = Some(TRUE)
          /\ e.allowed = None
          /\ e.backend = 0
          /\ e.recorded = 0

C28_HitBypassesLimiter == [][\A t \in Threads : ServedFromCache(t) => HitStep(t)]_vars

\* a call was served from the cache while the limiter was exhausted
C28_Witness ==
    /\ call_log # <<>>
    /\ call_log[Len(call_log)].outcome = "hit"
    /\ call_log[Len(call_log)].results # <<>>
    /\ Len(calls) >= max_calls
    /\ \A i \in DOMAIN calls : now - calls[i] <= Window

(***************************************************************************)
(* C29.  The short-circuit paths of reconciler_node agree with the general *)
(* path: when the web list is empty or the catalog list is empty, the      *)
(* comparison table returned by reconciler_node equals, row for row and    *)
(* field for field, _create_comparison_table(catalog, web, []) on the      *)
(* same inputs.                                                            *)
(***************************************************************************)
C29_ShortCircuitAgrees ==
    (rec_pc = "done" /\ (rag_results = <<>> \/ web_results = <<>>)) =>
        comparison_table = _create_comparison_table(rag_results, web_results, <<>>)

\* the catalog list was empty and a listing with thumbnail, source and rating
\* got its row
C29_Witness ==
    /\ rec_pc = "done"
    /\ rag_results = <<>>
    /\ \E j \in DOMAIN web_results : web_results[j] = WebA
    /\ Len(comparison_table) = Len(web_results)

\* the web list was empty and a product with image and product page got its row
C29_WitnessCatalog ==
    /\ rec_pc = "done"
    /\ web_results = <<>>
    /\ \E i \in DOMAIN rag_results : rag_results[i] = CatA
    /\ Len(comparison_table) = Len(rag_results)

(***************************************************************************)
(* C30.  Conflict detection is complete: every matched pair whose catalog  *)
(* price is a number and whose web price string parses to a number (a      *)
(* price of 0 on either side included) and whose absolute difference       *)
(* exceeds 5.0 yields a Conflict record and a matched row with             *)
(* has_conflict = true.                                                    *)
(***************************************************************************)
FarApart(pair) ==
    LET rp == pair.rag_product.price
        wp == _extract_price(pair.web_product.price)
    IN /\ rp # None
       /\ wp # None
       /\ Abs(rp[1] - wp[1]) > PriceDiffThreshold

C30_DetectionComplete ==
    rec_pc = "detected" =>
        \A k \in 1..Len(matched_pairs) :
            FarApart(matched_pairs[k]) =>
                /\ \E c \in 1..Len(conflicts) : RecordOf(conflicts[c], matched_pairs[k])
                /\ MatchedRow(matched_pairs[k]).has_conflict

\* what the code guarantees: the same for pairs whose two prices are not zero
C30_CompleteForNonZeroPrices ==
    rec_pc = "detected" =>
        \A k \in 1..Len(matched_pairs) :
            (/\ FarApart(matched_pairs[k])
             /\ Truthy(matched_pairs[k].rag_product.price)
             /\ Truthy(_extract_price(matched_pairs[k].web_product.price))) =>
                /\ \E c \in 1..Len(conflicts) : RecordOf(conflicts[c], matched_pairs[k])
                /\ MatchedRow(matched_pairs[k]).has_conflict

============================================================================
